---- MODULE Spec2Model ----
(***************************************************************************)
(* The roadmap graph engine of preply-ai-learning-flow:                    *)
(*   src/src/models/learning_node.py        LearningNode, NodeType         *)
(*   src/src/repositories/roadmap_repository.py   RoadmapRepository        *)
(*   src/src/services/roadmap_service.py    RoadmapService                 *)
(*                                                                         *)
(* Naming: a snake_case definition is the computation of the Python        *)
(* function of that name, as an operator of the repository contents and    *)
(* the arguments; the CamelCase definition of the same name is the step    *)
(* "a caller calls that function", which records the call and how it       *)
(* ended in `last`.                                                        *)
(*                                                                         *)
(* A LearningNode is a record of the fields the repository and the service *)
(* read: id, title, node_type, prerequisites, estimated_hours.  The fields *)
(* description, subtopics and resources are display-only: no function of   *)
(* the repository or the service reads them, and they are left out.        *)
(***************************************************************************)
EXTENDS Integers, Sequences, FiniteSets, TLC

(***************************************************************************)
(* Bounds of the model.                                                    *)
(***************************************************************************)
\* how many distinct node ids the callers use
NumIds == 3
\* longest prerequisites list of a node a caller builds
MaxPrereqs == 2
\* longest completed_topics list a caller holds
MaxCompleted == 2
\* largest estimated_hours of a node a caller builds
MaxHours == 2
\* most nodes in the repository of SpecTopics
MaxTopicNodes == 2
\* how many add_node calls the call log of SpecAdds records
MaxAdds == 3
\* the threads that make queries at the same time
NumThreads == 2
\* the sessions, the pages open on the application at the same time
NumSessions == 2

(***************************************************************************)
(* Python values.                                                          *)
(***************************************************************************)
\* Python's None
None == [py |-> "None"]

\* how a call ends: it returns a value, or it raises an exception
Return(v) == [py |-> "return", value |-> v]

Raise(kind, msg) == [py |-> "raise", exception |-> kind, message |-> msg]

IsRaise(outcome) == outcome.py = "raise"

\* the ids the callers use: the first NumIds of these
IdNames == <<"start", "llm-apis", "model-adaptation", "storage-retrieval", "infrastructure">>

Ids == {IdNames[i] : i \in 1..NumIds}

\* the members of a Python list, as a set: set(s)
Elems(s) == {s[i] : i \in 1..Len(s)}

\* all lists of at most n elements of S
ListsUpTo(S, n) == UNION {[1..k -> S] : k \in 0..n}

(***************************************************************************)
(* The state.                                                              *)
(***************************************************************************)
VARIABLES
  nodes,             \* RoadmapRepository._nodes
  completed_topics,  \* the caller's list of completed topic ids
  last,              \* the last call: [op, arg, outcome]
  first,             \* Spec: the first query made since _nodes last changed, or None
  added,             \* SpecAdds: the nodes passed to add_node so far, in call order
  threads,           \* SpecConcurrent: the query each thread is in, and its locals
  invoked,           \* the collaborator calls of the last request, in call order
  progress_output    \* SpecApp: what the Progress Tracker of each session's page shows

vars == <<nodes, completed_topics, last, first, added, threads, invoked, progress_output>>

Call(op, arg, outcome) == [op |-> op, arg |-> arg, outcome |-> outcome]

(***************************************************************************)
(* models/learning_node.py                                                 *)
(***************************************************************************)
NodeType == {"start", "topic", "end"}

\* (mutant of post_init: the title is checked before the id)
post_init_title_first(self) ==
  IF self.title = "" THEN Raise("ValueError", "Node title cannot be empty")
  ELSE IF self.id = "" THEN Raise("ValueError", "Node ID cannot be empty")
  ELSE Return(None)

\* LearningNode.__post_init__: the validation a construction ends with
post_init(self) ==
  IF self.id = "" THEN Raise("ValueError", "Node ID cannot be empty")
  ELSE IF self.title = "" THEN Raise("ValueError", "Node title cannot be empty")
  ELSE Return(None)

\* LearningNode(id=, title=, node_type=, prerequisites=, estimated_hours=):
\* the dataclass stores the fields, then runs __post_init__; the outcome is
\* the node, or what __post_init__ raised
LearningNode(id, title, node_type, prerequisites, estimated_hours) ==
  LET self == [id |-> id, title |-> title, node_type |-> node_type,
               prerequisites |-> prerequisites, estimated_hours |-> estimated_hours]
      check == post_init(self)
  IN IF IsRaise(check) THEN check ELSE Return(self)

(***************************************************************************)
(* repositories/roadmap_repository.py                                      *)
(* The dict _nodes is a list of nodes with pairwise different ids, in      *)
(* insertion order (a Python dict iterates in insertion order, and         *)
(* assigning to a key it holds keeps the key's position).                  *)
(***************************************************************************)
\* RoadmapRepository.__init__: the empty dict
new_repository == <<>>

\* the position of key in the dict, 0 when it is not a key
key_index(store, key) ==
  IF \E i \in 1..Len(store) : store[i].id = key
    THEN CHOOSE i \in 1..Len(store) : store[i].id = key
    ELSE 0

\* (mutant of add_node: the node is appended whether or not its id is a key)
add_node_append(store, node) == Append(store, node)

\* (mutant of add_node: a key the dict holds keeps its first node)
add_node_setdefault(store, node) ==
  IF key_index(store, node.id) = 0 THEN Append(store, node) ELSE store

\* add_node: self._nodes[node.id] = node
add_node(store, node) ==
  LET i == key_index(store, node.id)
  IN IF i = 0 THEN Append(store, node) ELSE [store EXCEPT ![i] = node]

\* get_node_by_id: self._nodes.get(node_id)
get_node_by_id(store, node_id) ==
  LET i == key_index(store, node_id)
  IN IF i = 0 THEN None ELSE store[i]

\* get_all_nodes: list(self._nodes.values())
get_all_nodes(store) == store

\* load_default_roadmap: the eleven nodes, in the order they are added
DefaultNodes == <<
  LearningNode("start", "Start", "start", <<>>, 0),
  LearningNode("llm-apis", "LLM APIs", "topic", <<"start">>, 20),
  LearningNode("model-adaptation", "Model Adaptation", "topic", <<"llm-apis">>, 30),
  LearningNode("storage-retrieval", "Storage for Retrieval", "topic", <<"llm-apis">>, 25),
  LearningNode("infrastructure", "Infrastructure", "topic",
               <<"model-adaptation", "storage-retrieval">>, 40),
  LearningNode("ai-agents", "AI Agents", "topic",
               <<"model-adaptation", "storage-retrieval">>, 50),
  LearningNode("rag-agentic", "RAG & Agentic RAG", "topic",
               <<"ai-agents", "storage-retrieval">>, 35),
  LearningNode("observability-evaluation", "Observability & Evaluation", "topic",
               <<"ai-agents", "rag-agentic">>, 30),
  LearningNode("security", "Security", "topic",
               <<"infrastructure", "observability-evaluation">>, 25),
  LearningNode("forward-looking", "Forward looking elements", "topic",
               <<"security", "observability-evaluation">>, 20),
  LearningNode("ai-engineer", "AI Engineer", "end", <<"forward-looking">>, 0) >>

\* load_default_roadmap: each node is built and passed to add_node, in turn
RECURSIVE load_from(_, _)
\* (mutant of load_from: the START and END nodes are not added)
load_from_topics(store, i) ==
  IF i > Len(DefaultNodes) THEN store
  ELSE IF DefaultNodes[i].value.node_type # "topic" THEN load_from(store, i + 1)
  ELSE load_from(add_node(store, DefaultNodes[i].value), i + 1)

\* (mutant of load_from: every node is added with prerequisites=[])
load_from_unlinked(store, i) ==
  IF i > Len(DefaultNodes) THEN store
  ELSE load_from(add_node(store, [DefaultNodes[i].value EXCEPT !.prerequisites = <<>>]),
                 i + 1)

\* (mutant of load_from: a TOPIC node added after a TOPIC node gets that
\* node as its only prerequisite)
load_from_chained(store, i) ==
  IF i > Len(DefaultNodes) THEN store
  ELSE load_from(add_node(store,
                   IF i > 1 /\ DefaultNodes[i].value.node_type = "topic"
                     /\ DefaultNodes[i - 1].value.node_type = "topic"
                     THEN [DefaultNodes[i].value EXCEPT
                             !.prerequisites = <<DefaultNodes[i - 1].value.id>>]
                   ELSE DefaultNodes[i].value),
                 i + 1)

load_from(store, i) ==
  IF i > Len(DefaultNodes) THEN store
  ELSE load_from(add_node(store, DefaultNodes[i].value), i + 1)

load_default_roadmap(store) == load_from(store, 1)

\* (mutant of node_added: "ai-agents" is added where "storage-retrieval"
\* is, and "storage-retrieval" where "ai-agents" is)
node_added_swapped(i) ==
  IF i = 4 THEN DefaultNodes[6].value
  ELSE IF i = 6 THEN DefaultNodes[4].value
  ELSE DefaultNodes[i].value

\* load_default_roadmap: the node of its i-th add_node call
node_added(i) == DefaultNodes[i].value

(***************************************************************************)
(* services/roadmap_service.py                                             *)
(***************************************************************************)
\* sum(node.estimated_hours for node in nodes), from position i on
RECURSIVE sum_hours(_, _)
sum_hours(all_nodes, i) ==
  IF i > Len(all_nodes) THEN 0
  ELSE all_nodes[i].estimated_hours + sum_hours(all_nodes, i + 1)

\* (mutant of get_roadmap_overview: only the TOPIC nodes are counted)
get_roadmap_overview_topics(store) ==
  LET topics == SelectSeq(get_all_nodes(store), LAMBDA n : n.node_type = "topic")
  IN [total_nodes |-> Len(topics), estimated_total_hours |-> sum_hours(topics, 1)]

\* get_roadmap_overview
get_roadmap_overview(store) ==
  LET all_nodes == get_all_nodes(store)
      total_hours == sum_hours(all_nodes, 1)
  IN [total_nodes |-> Len(all_nodes), estimated_total_hours |-> total_hours]

\* (mutant of new_locals: path outlives the call that filled it)
new_locals_kept ==
  [path |-> IF last.op = "get_learning_path" THEN last.outcome.value ELSE <<>>,
   visited |-> {}]

\* the locals path and visited of get_learning_path, as it creates them
new_locals == [path |-> <<>>, visited |-> {}]

\* build_path, the closure of get_learning_path: st holds the locals path
\* and visited it shares with its caller; for_prerequisites is its loop
RECURSIVE build_path(_, _, _), for_prerequisites(_, _, _, _)

\* (mutant of build_path: the node is appended before its prerequisites)
build_path_preorder(store, node_id, st) ==
  IF node_id \in st.visited THEN st
  ELSE LET node == get_node_by_id(store, node_id)
       IN IF node = None THEN st
          ELSE LET entered == [visited |-> st.visited \cup {node_id},
                               path |-> Append(st.path, node)]
               IN for_prerequisites(store, node.prerequisites, 1, entered)

\* (mutant of build_path: what the prerequisites add to visited is dropped
\* on return, as if visited were passed by value)
build_path_by_value(store, node_id, st) ==
  IF node_id \in st.visited THEN st
  ELSE LET node == get_node_by_id(store, node_id)
       IN IF node = None THEN st
          ELSE LET entered == [st EXCEPT !.visited = @ \cup {node_id}]
                   after == for_prerequisites(store, node.prerequisites, 1, entered)
               IN [visited |-> entered.visited, path |-> Append(after.path, node)]

\* (mutant of build_path: a node met again is appended again before the
\* return of the visited guard)
build_path_revisit(store, node_id, st) ==
  IF node_id \in st.visited
    THEN [st EXCEPT !.path = Append(@, get_node_by_id(store, node_id))]
  ELSE LET node == get_node_by_id(store, node_id)
       IN IF node = None THEN st
          ELSE LET entered == [st EXCEPT !.visited = @ \cup {node_id}]
                   after == for_prerequisites(store, node.prerequisites, 1, entered)
               IN [after EXCEPT !.path = Append(@, node)]

build_path(store, node_id, st) ==
  IF node_id \in st.visited THEN st
  ELSE LET node == get_node_by_id(store, node_id)
       IN IF node = None THEN st
          ELSE LET entered == [st EXCEPT !.visited = @ \cup {node_id}]
                   after == for_prerequisites(store, node.prerequisites, 1, entered)
               IN [after EXCEPT !.path = Append(@, node)]

\* (mutant of for_prerequisites: the loop ends at the first id that the
\* store does not hold)
for_prerequisites_break(store, prerequisites, i, st) ==
  IF i > Len(prerequisites) THEN st
  ELSE IF get_node_by_id(store, prerequisites[i]) = None THEN st
  ELSE for_prerequisites(store, prerequisites, i + 1,
                         build_path(store, prerequisites[i], st))

\* (mutant of for_prerequisites: the loop runs over the list from its last
\* id to its first, for prereq_id in reversed(node.prerequisites))
for_prerequisites_reversed(store, prerequisites, i, st) ==
  IF i > Len(prerequisites) THEN st
  ELSE for_prerequisites(store, prerequisites, i + 1,
                         build_path(store, prerequisites[Len(prerequisites) + 1 - i], st))

for_prerequisites(store, prerequisites, i, st) ==
  IF i > Len(prerequisites) THEN st
  ELSE for_prerequisites(store, prerequisites, i + 1,
                         build_path(store, prerequisites[i], st))

\* (mutant of get_learning_path: the path is returned from the target back)
get_learning_path_reversed(store, target_node_id) ==
  LET target_node == get_node_by_id(store, target_node_id)
      path == IF target_node = None THEN <<>>
              ELSE build_path(store, target_node_id, new_locals).path
  IN [k \in 1..Len(path) |-> path[Len(path) + 1 - k]]

\* get_learning_path
get_learning_path(store, target_node_id) ==
  LET target_node == get_node_by_id(store, target_node_id)
  IN IF target_node = None THEN <<>>
     ELSE build_path(store, target_node_id, new_locals).path

\* get_prerequisites: the loop over node.prerequisites, from position i on
RECURSIVE resolve_prerequisites(_, _, _, _)
resolve_prerequisites(store, prereq_ids, i, prerequisites) ==
  IF i > Len(prereq_ids) THEN prerequisites
  ELSE LET prereq_node == get_node_by_id(store, prereq_ids[i])
       IN resolve_prerequisites(store, prereq_ids, i + 1,
            IF prereq_node # None THEN Append(prerequisites, prereq_node)
            ELSE prerequisites)

\* (mutant of get_prerequisites: the prerequisites of the prerequisites are
\* returned too, as the learning path without its last node)
get_prerequisites_transitive(store, node_id) ==
  LET path == get_learning_path(store, node_id)
  IN IF path = <<>> THEN <<>> ELSE SubSeq(path, 1, Len(path) - 1)

\* get_prerequisites
get_prerequisites(store, node_id) ==
  LET node == get_node_by_id(store, node_id)
  IN IF node = None THEN <<>>
     ELSE resolve_prerequisites(store, node.prerequisites, 1, <<>>)

\* (mutant of prerequisites_met: one completed prerequisite is enough)
prerequisites_met_any(node, completed_set) ==
  \/ node.prerequisites = <<>>
  \/ \E k \in 1..Len(node.prerequisites) : node.prerequisites[k] \in completed_set

\* all(prereq_id in completed_set for prereq_id in node.prerequisites)
prerequisites_met(node, completed_set) ==
  \A k \in 1..Len(node.prerequisites) : node.prerequisites[k] \in completed_set

\* (mutant of new_recommended: recommended outlives the call that filled it)
new_recommended_kept ==
  IF last.op = "get_next_recommended_topics" THEN last.outcome.value ELSE <<>>

\* the local recommended of get_next_recommended_topics, as it creates it
new_recommended == <<>>

\* get_next_recommended_topics: the loop over all_nodes, from position i on
RECURSIVE recommend_from(_, _, _, _)
recommend_from(all_nodes, completed_set, i, recommended) ==
  IF i > Len(all_nodes) THEN recommended
  ELSE LET node == all_nodes[i]
       IN IF node.id \in completed_set
            THEN recommend_from(all_nodes, completed_set, i + 1, recommended)
          ELSE IF node.node_type \in {"start", "end"}
            THEN recommend_from(all_nodes, completed_set, i + 1, recommended)
          ELSE IF prerequisites_met(node, completed_set)
            THEN recommend_from(all_nodes, completed_set, i + 1, Append(recommended, node))
          ELSE recommend_from(all_nodes, completed_set, i + 1, recommended)

\* (mutant of get_next_recommended_topics: the prerequisites are not looked at)
get_next_recommended_topics_unlocked(store, completed) ==
  SelectSeq(get_all_nodes(store),
            LAMBDA node : node.id \notin Elems(completed) /\ node.node_type = "topic")

\* (mutant of get_next_recommended_topics: only the completed ids of
\* TOPIC nodes count as completed, so that start never does)
get_next_recommended_topics_of_topics(store, completed) ==
  LET all_nodes == get_all_nodes(store)
      completed_set ==
        {id \in Elems(completed) :
           \E i \in 1..Len(all_nodes) :
             all_nodes[i].id = id /\ all_nodes[i].node_type = "topic"}
  IN recommend_from(all_nodes, completed_set, 1, new_recommended)

\* get_next_recommended_topics
get_next_recommended_topics(store, completed) ==
  LET completed_set == Elems(completed)
      all_nodes == get_all_nodes(store)
  IN recommend_from(all_nodes, completed_set, 1, new_recommended)

\* calculate_remaining_hours: the loop over all_nodes, from position i on
RECURSIVE remaining_from(_, _, _, _)

\* (mutant of remaining_from: "in" for "not in")
remaining_from_completed(all_nodes, completed_set, i, remaining_hours) ==
  IF i > Len(all_nodes) THEN remaining_hours
  ELSE remaining_from(all_nodes, completed_set, i + 1,
         IF all_nodes[i].id \in completed_set
           THEN remaining_hours + all_nodes[i].estimated_hours
           ELSE remaining_hours)

remaining_from(all_nodes, completed_set, i, remaining_hours) ==
  IF i > Len(all_nodes) THEN remaining_hours
  ELSE remaining_from(all_nodes, completed_set, i + 1,
         IF all_nodes[i].id \notin completed_set
           THEN remaining_hours + all_nodes[i].estimated_hours
           ELSE remaining_hours)

\* (mutant of calculate_remaining_hours: the hours of every entry of
\* completed_topics are taken off the total, the list not made a set)
calculate_remaining_hours_per_entry(store, completed) ==
  LET all_nodes == get_all_nodes(store)
      done == [k \in 1..Len(completed) |-> get_node_by_id(store, completed[k])]
  IN sum_hours(all_nodes, 1) - sum_hours(SelectSeq(done, LAMBDA n : n # None), 1)

\* calculate_remaining_hours
calculate_remaining_hours(store, completed) ==
  LET completed_set == Elems(completed)
      all_nodes == get_all_nodes(store)
  IN remaining_from(all_nodes, completed_set, 1, 0)

(***************************************************************************)
(* services/audio_ui_service.py                                            *)
(*                                                                         *)
(* The service is built on two collaborators, openai_service and           *)
(* sentiment_service.  `self` gives, for the request at hand, the outcome  *)
(* each of their methods has when it is called: a value returned or an     *)
(* exception raised.  A call is recorded with its arguments and outcome.   *)
(***************************************************************************)
\* a dict is a function on its keys; {} is the function on no key
empty_dict == [key \in {} |-> None]

\* d.get(key, default)
dict_get(d, key, default) == IF key \in DOMAIN d THEN d[key] ELSE default

\* f"{confidence:.2f}", for a confidence given in hundredths
format_2f(confidence) ==
  ToString(confidence \div 100) \o "." \o ToString((confidence % 100) \div 10)
    \o ToString(confidence % 10)

\* _create_sentiment_context
create_sentiment_context(sentiment_analysis) ==
  LET sentiment == dict_get(sentiment_analysis, "sentiment", empty_dict)
      emotion == dict_get(sentiment, "emotion", "neutral")
      confidence == dict_get(sentiment, "confidence", 0)
      analysis == dict_get(sentiment, "analysis", "")
  IN "User's emotional state: " \o emotion \o " (confidence: " \o format_2f(confidence)
       \o "). Audio analysis: " \o analysis

\* a call of a collaborator's method, as the service makes it
Invocation(method, args, outcome) == [method |-> method, args |-> args, outcome |-> outcome]

\* process_audio_input: what the except clause returns for the exception e
audio_error(e) ==
  [transcription |-> "",
   sentiment_analysis |-> empty_dict,
   ai_response |-> "Sorry, I encountered an error processing your audio: " \o e.message,
   recommendation |-> "Please try recording again or check your microphone.",
   success |-> FALSE]

\* (mutant of process_audio_input: the language-model query is made after
\* the try statement, so what it raises is not caught)
process_audio_input_query_outside_try(self, audio_file_path, user_progress) ==
  LET transcribed == Invocation("transcribe_audio", <<audio_file_path>>, self.transcribe_audio)
      analyzed == Invocation("analyze_audio_sentiment", <<audio_file_path>>,
                             self.analyze_audio_sentiment)
  IN IF IsRaise(transcribed.outcome)
       THEN [outcome |-> Return(audio_error(transcribed.outcome)),
             invoked |-> <<transcribed>>]
     ELSE IF IsRaise(analyzed.outcome)
       THEN [outcome |-> Return(audio_error(analyzed.outcome)),
             invoked |-> <<transcribed, analyzed>>]
     ELSE LET transcription == transcribed.outcome.value
              sentiment_analysis == analyzed.outcome.value
              sentiment_context == create_sentiment_context(sentiment_analysis)
              queried == Invocation("process_learning_query",
                                    <<transcription, sentiment_context, user_progress>>,
                                    self.process_learning_query)
          IN [outcome |->
                IF IsRaise(queried.outcome) THEN queried.outcome
                ELSE Return([transcription |-> transcription,
                             sentiment_analysis |-> sentiment_analysis,
                             ai_response |-> queried.outcome.value,
                             recommendation |->
                               dict_get(sentiment_analysis, "recommendation", ""),
                             success |-> TRUE]),
              invoked |-> <<transcribed, analyzed, queried>>]

\* (mutant of process_audio_input: the sentiment is analyzed before the
\* audio is transcribed)
process_audio_input_sentiment_first(self, audio_file_path, user_progress) ==
  LET analyzed == Invocation("analyze_audio_sentiment", <<audio_file_path>>,
                             self.analyze_audio_sentiment)
      transcribed == Invocation("transcribe_audio", <<audio_file_path>>,
                                self.transcribe_audio)
  IN IF IsRaise(analyzed.outcome)
       THEN [outcome |-> Return(audio_error(analyzed.outcome)), invoked |-> <<analyzed>>]
     ELSE IF IsRaise(transcribed.outcome)
       THEN [outcome |-> Return(audio_error(transcribed.outcome)),
             invoked |-> <<analyzed, transcribed>>]
     ELSE LET transcription == transcribed.outcome.value
              sentiment_analysis == analyzed.outcome.value
              sentiment_context == create_sentiment_context(sentiment_analysis)
              queried == Invocation("process_learning_query",
                                    <<transcription, sentiment_context, user_progress>>,
                                    self.process_learning_query)
          IN [outcome |->
                IF IsRaise(queried.outcome) THEN Return(audio_error(queried.outcome))
                ELSE Return([transcription |-> transcription,
                             sentiment_analysis |-> sentiment_analysis,
                             ai_response |-> queried.outcome.value,
                             recommendation |->
                               dict_get(sentiment_analysis, "recommendation", ""),
                             success |-> TRUE]),
              invoked |-> <<analyzed, transcribed, queried>>]

\* process_audio_input: the outcome of the call and the collaborator calls
\* it made, in order
process_audio_input(self, audio_file_path, user_progress) ==
  LET transcribed == Invocation("transcribe_audio", <<audio_file_path>>, self.transcribe_audio)
      analyzed == Invocation("analyze_audio_sentiment", <<audio_file_path>>,
                             self.analyze_audio_sentiment)
  IN IF IsRaise(transcribed.outcome)
       THEN [outcome |-> Return(audio_error(transcribed.outcome)),
             invoked |-> <<transcribed>>]
     ELSE IF IsRaise(analyzed.outcome)
       THEN [outcome |-> Return(audio_error(analyzed.outcome)),
             invoked |-> <<transcribed, analyzed>>]
     ELSE LET transcription == transcribed.outcome.value
              sentiment_analysis == analyzed.outcome.value
              sentiment_context == create_sentiment_context(sentiment_analysis)
              queried == Invocation("process_learning_query",
                                    <<transcription, sentiment_context, user_progress>>,
                                    self.process_learning_query)
          IN [outcome |->
                IF IsRaise(queried.outcome) THEN Return(audio_error(queried.outcome))
                ELSE Return([transcription |-> transcription,
                             sentiment_analysis |-> sentiment_analysis,
                             ai_response |-> queried.outcome.value,
                             recommendation |->
                               dict_get(sentiment_analysis, "recommendation", ""),
                             success |-> TRUE]),
              invoked |-> <<transcribed, analyzed, queried>>]

(***************************************************************************)
(* services/openai_service.py                                              *)
(*                                                                         *)
(* `client` gives, for the request at hand, the outcome each call of the   *)
(* provider has: chat for chat.completions.create, whose value is the      *)
(* content of the first choice, and whisper for                            *)
(* audio.transcriptions.create, which stands for the opening of the file   *)
(* too.  A method gives its outcome and the provider calls it made.        *)
(***************************************************************************)
\* sep.join(list)
RECURSIVE join(_, _)
join(sep, list) ==
  IF list = <<>> THEN ""
  ELSE IF Len(list) = 1 THEN list[1]
  ELSE list[1] \o sep \o join(sep, Tail(list))

\* the opening of base_prompt in _build_system_prompt
base_prompt ==
  "You are an expert AI Engineering learning assistant and mentor."
    \o " Provide personalized, encouraging guidance."
    \o " Be specific about next steps and resources."

\* _build_system_prompt
build_system_prompt(sentiment_context, user_progress) ==
  LET with_sentiment ==
        IF sentiment_context # ""
          THEN base_prompt \o "\n\nUser's current emotional state: " \o sentiment_context
                 \o ". Adjust your response tone and recommendations accordingly."
          ELSE base_prompt
      completed ==
        IF user_progress # None /\ user_progress # empty_dict
          THEN dict_get(user_progress, "completed_topics", <<>>)
          ELSE <<>>
  IN IF completed # <<>>
       THEN with_sentiment \o "\n\nUser has completed: " \o join(", ", completed)
              \o ". Build on their existing knowledge."
       ELSE with_sentiment

\* OpenAIService.transcribe_audio
transcribe_audio(client, audio_file_path) ==
  LET created == Invocation("audio.transcriptions.create",
                            <<"whisper-1", audio_file_path, "text">>, client.whisper)
  IN [outcome |-> IF IsRaise(created.outcome)
                    THEN Raise("RuntimeError",
                               "Error transcribing audio: " \o created.outcome.message)
                    ELSE created.outcome,
      invoked |-> <<created>>]

\* (mutant of process_learning_query: the except clause raises a
\* RuntimeError, as the one of transcribe_audio does)
process_learning_query_reraise(client, query, sentiment_context, user_progress) ==
  LET system_prompt == build_system_prompt(sentiment_context, user_progress)
      created == Invocation("chat.completions.create",
                            <<"gpt-4", system_prompt, query, 500>>, client.chat)
  IN [outcome |-> IF IsRaise(created.outcome)
                    THEN Raise("RuntimeError",
                               "Error processing query: " \o created.outcome.message)
                    ELSE created.outcome,
      invoked |-> <<created>>]

\* OpenAIService.process_learning_query
process_learning_query(client, query, sentiment_context, user_progress) ==
  LET system_prompt == build_system_prompt(sentiment_context, user_progress)
      created == Invocation("chat.completions.create",
                            <<"gpt-4", system_prompt, query, 500>>, client.chat)
  IN [outcome |-> IF IsRaise(created.outcome)
                    THEN Return("I'm sorry, I encountered an error while processing your request: "
                                  \o created.outcome.message
                                  \o ". Please try again or check your OpenAI API key.")
                    ELSE created.outcome,
      invoked |-> <<created>>]

\* topic_descriptions in get_topic_specific_help
topic_descriptions ==
  [topic_id \in {"llm-apis", "model-adaptation", "storage-retrieval", "infrastructure",
                 "ai-agents", "rag-agentic", "observability-evaluation", "security",
                 "forward-looking"} |->
     CASE topic_id = "llm-apis" -> "Large Language Model APIs"
       [] topic_id = "model-adaptation" -> "Model adaptation techniques"
       [] topic_id = "storage-retrieval" -> "Storage solutions for AI applications"
       [] topic_id = "infrastructure" -> "AI infrastructure"
       [] topic_id = "ai-agents" -> "AI agent development"
       [] topic_id = "rag-agentic" -> "Retrieval-Augmented Generation and agentic RAG"
       [] topic_id = "observability-evaluation" -> "AI system observability and evaluation"
       [] topic_id = "security" -> "AI security"
       [] topic_id = "forward-looking" -> "Emerging AI technologies"]

\* OpenAIService.get_topic_specific_help
get_topic_specific_help(client, topic_id, user_question) ==
  LET topic_description ==
        dict_get(topic_descriptions, topic_id, "AI Engineering topic: " \o topic_id)
      system_prompt ==
        "You are an expert AI Engineering tutor specializing in " \o topic_description \o ". "
      created == Invocation("chat.completions.create",
                            <<"gpt-4", system_prompt, user_question, 400>>, client.chat)
  IN [outcome |-> IF IsRaise(created.outcome)
                    THEN Return("I'm having trouble accessing the AI assistant right now: "
                                  \o created.outcome.message
                                  \o ". Please check your internet connection and API key.")
                    ELSE created.outcome,
      invoked |-> <<created>>]

\* AudioUIService.create_chatbot_response
create_chatbot_response(self, message, sentiment_context, user_progress) ==
  LET queried == Invocation("process_learning_query",
                            <<message, sentiment_context, user_progress>>,
                            self.process_learning_query)
  IN [outcome |-> IF IsRaise(queried.outcome)
                    THEN Return("I'm having trouble responding right now: "
                                  \o queried.outcome.message \o ". Please try again.")
                    ELSE queried.outcome,
      invoked |-> <<queried>>]

\* AudioUIService.get_topic_help
get_topic_help(self, topic_id, question) ==
  LET asked == Invocation("get_topic_specific_help", <<topic_id, question>>,
                          self.get_topic_specific_help)
  IN [outcome |-> IF IsRaise(asked.outcome)
                    THEN Return("I'm having trouble accessing topic help: "
                                  \o asked.outcome.message \o ". Please try again.")
                    ELSE asked.outcome,
      invoked |-> <<asked>>]

(***************************************************************************)
(* ui/gradio_ui_service.py                                                 *)
(*                                                                         *)
(* A display is given by what it shows, not by its markup.                 *)
(***************************************************************************)
\* next_topics[:3]
first_three(list) == SubSeq(list, 1, IF Len(list) < 3 THEN Len(list) ELSE 3)

\* (mutant of create_progress_tracker_display: the Congratulations message
\* is shown when remaining_hours is 0, the recommendations otherwise)
create_progress_tracker_display_by_hours(store, completed) ==
  LET overview == get_roadmap_overview(store)
      remaining_hours == calculate_remaining_hours(store, completed)
      total_hours == overview.estimated_total_hours
      completed_hours == total_hours - remaining_hours
      next_topics == get_next_recommended_topics(store, completed)
  IN [completed |-> Len(completed),
      completed_hours |-> completed_hours,
      progress_percentage |->
        IF total_hours > 0
          THEN (2000 * completed_hours + total_hours) \div (2 * total_hours)
          ELSE 0,
      remaining_hours |-> remaining_hours,
      heading |-> IF remaining_hours # 0 THEN "Next Recommended Topics:"
                  ELSE "Congratulations! No more topics available.",
      topics |-> IF remaining_hours # 0
                   THEN [k \in 1..Len(first_three(next_topics)) |->
                           [title |-> next_topics[k].title,
                            estimated_hours |-> next_topics[k].estimated_hours]]
                   ELSE <<>>]

\* create_progress_tracker_display: the counts, the percentage in tenths
\* of a percent to the nearest tenth as {:.1f} shows it, the heading of the
\* last section and the topics listed under it
create_progress_tracker_display(store, completed) ==
  LET overview == get_roadmap_overview(store)
      remaining_hours == calculate_remaining_hours(store, completed)
      total_hours == overview.estimated_total_hours
      completed_hours == total_hours - remaining_hours
      next_topics == get_next_recommended_topics(store, completed)
  IN [completed |-> Len(completed),
      completed_hours |-> completed_hours,
      progress_percentage |->
        IF total_hours > 0
          THEN (2000 * completed_hours + total_hours) \div (2 * total_hours)
          ELSE 0,
      remaining_hours |-> remaining_hours,
      heading |-> IF next_topics # <<>> THEN "Next Recommended Topics:"
                  ELSE "Congratulations! No more topics available.",
      topics |-> IF next_topics # <<>>
                   THEN [k \in 1..Len(first_three(next_topics)) |->
                           [title |-> next_topics[k].title,
                            estimated_hours |-> next_topics[k].estimated_hours]]
                   ELSE <<>>]

(***************************************************************************)
(* app.py: the callbacks of create_gradio_app on its list completed_topics.*)
(* A value that a component hands to a callback is None or a str.          *)
(***************************************************************************)
Str(s) == [py |-> "str", value |-> s]

\* `if topic_id`
truthy(topic_id) == topic_id # None /\ topic_id.value # ""

\* `topic_id in completed_topics`
contains(completed, topic_id) == topic_id # None /\ topic_id.value \in Elems(completed)

\* completed_topics.remove(x): the first x is taken out
RECURSIVE list_remove(_, _)
list_remove(list, x) ==
  IF list = <<>> THEN <<>>
  ELSE IF Head(list) = x THEN Tail(list)
  ELSE <<Head(list)>> \o list_remove(Tail(list), x)

\* (mutant of add_completed_topic: the id is appended whenever it is not
\* empty, without the test `not in completed_topics`)
add_completed_topic_again(completed, topic_id) ==
  IF truthy(topic_id) THEN Append(completed, topic_id.value) ELSE completed

\* add_completed_topic: what it leaves in completed_topics
add_completed_topic(completed, topic_id) ==
  IF truthy(topic_id) /\ ~contains(completed, topic_id)
    THEN Append(completed, topic_id.value)
    ELSE completed

\* remove_completed_topic: what it leaves in completed_topics
remove_completed_topic(completed, topic_id) ==
  IF contains(completed, topic_id) THEN list_remove(completed, topic_id.value)
  ELSE completed

\* reset_progress: what completed_topics.clear() leaves
reset_progress(completed) == <<>>

\* (mutant of progress_of: the request is given a list of its own)
progress_own(completed) == [completed_topics |-> <<>>]

\* user_progress = {"completed_topics": completed_topics}
progress_of(completed) == [completed_topics |-> completed]

\* update_progress_display, with the call it makes
update_progress_display(store, completed) ==
  LET shown == create_progress_tracker_display(store, completed)
  IN [outcome |-> Return(shown),
      invoked |-> <<Invocation("create_progress_tracker_display", <<completed>>,
                               Return(shown))>>]

\* the three displays an audio request returns, by their texts
AudioDisplays(transcription_html, sentiment_html, response_html) ==
  [transcription_output |-> transcription_html, sentiment_output |-> sentiment_html,
   ai_response_output |-> response_html]

\* format_audio_response
format_audio_response(processing_result) ==
  IF ~dict_get(processing_result, "success", FALSE)
    THEN LET error_msg == dict_get(processing_result, "ai_response", "Unknown error")
         IN AudioDisplays(error_msg, "Could not analyze sentiment", error_msg)
    ELSE AudioDisplays(
           dict_get(processing_result, "transcription", ""),
           dict_get(dict_get(dict_get(processing_result, "sentiment_analysis", empty_dict),
                             "sentiment", empty_dict),
                    "emotion", "unknown"),
           dict_get(processing_result, "ai_response", ""))

(***************************************************************************)
(* The threads of a host that serves several requests at once.  A thread   *)
(* is idle, or inside a query (pc "running"), or back from it with its     *)
(* result (pc "done").                                                     *)
(***************************************************************************)
Threads == 1..NumThreads

Sessions == 1..NumSessions

idle ==
  [pc |-> "idle", op |-> "", arg |-> None, stack |-> <<>>, local |-> None,
   walk |-> new_locals, result |-> None]

(***************************************************************************)
(* The calls.  Each says what it does to the repository, to the caller's   *)
(* list and to `last`; the observers `first` and `added` are left to the   *)
(* specification that conjoins the call.                                   *)
(***************************************************************************)
Init ==
  /\ nodes = new_repository
  /\ completed_topics = <<>>
  /\ last = Call("RoadmapRepository", None, Return(None))
  /\ first = None
  /\ added = <<>>
  /\ threads = [t \in Threads |-> idle]
  /\ invoked = <<>>
  /\ progress_output = [session \in Sessions |-> None]

\* LearningNode(id=.., title=.., ...)
NewLearningNode(id, title, node_type, prerequisites, estimated_hours) ==
  /\ last' = Call("LearningNode",
                  [id |-> id, title |-> title, node_type |-> node_type,
                   prerequisites |-> prerequisites, estimated_hours |-> estimated_hours],
                  LearningNode(id, title, node_type, prerequisites, estimated_hours))
  /\ UNCHANGED <<nodes, completed_topics>>

\* repo.add_node(node)
AddNode(node) ==
  /\ nodes' = add_node(nodes, node)
  /\ last' = Call("add_node", node, Return(None))
  /\ UNCHANGED completed_topics

\* repo.load_default_roadmap(), on a repository just created
LoadDefaultRoadmap ==
  /\ nodes = new_repository
  /\ nodes' = load_default_roadmap(nodes)
  /\ last' = Call("load_default_roadmap", None, Return(None))
  /\ UNCHANGED completed_topics

\* (mutant of GetNodeById: self._nodes[node_id] for self._nodes.get(node_id))
GetNodeById_subscript(node_id) ==
  /\ last' = Call("get_node_by_id", node_id,
                  IF key_index(nodes, node_id) = 0 THEN Raise("KeyError", node_id)
                  ELSE Return(get_node_by_id(nodes, node_id)))
  /\ UNCHANGED <<nodes, completed_topics>>

\* repo.get_node_by_id(node_id)
GetNodeById(node_id) ==
  /\ last' = Call("get_node_by_id", node_id, Return(get_node_by_id(nodes, node_id)))
  /\ UNCHANGED <<nodes, completed_topics>>

\* repo.get_all_nodes()
GetAllNodes ==
  /\ last' = Call("get_all_nodes", None, Return(get_all_nodes(nodes)))
  /\ UNCHANGED <<nodes, completed_topics>>

\* service.get_roadmap_overview()
GetRoadmapOverview ==
  /\ last' = Call("get_roadmap_overview", None, Return(get_roadmap_overview(nodes)))
  /\ UNCHANGED <<nodes, completed_topics>>

\* service.get_learning_path(target_node_id)
GetLearningPath(target_node_id) ==
  /\ last' = Call("get_learning_path", target_node_id,
                  Return(get_learning_path(nodes, target_node_id)))
  /\ UNCHANGED <<nodes, completed_topics>>

\* service.get_prerequisites(node_id)
GetPrerequisites(node_id) ==
  /\ last' = Call("get_prerequisites", node_id, Return(get_prerequisites(nodes, node_id)))
  /\ UNCHANGED <<nodes, completed_topics>>

\* service.get_next_recommended_topics(completed)
GetNextRecommendedTopics(completed) ==
  /\ last' = Call("get_next_recommended_topics", completed,
                  Return(get_next_recommended_topics(nodes, completed)))
  /\ UNCHANGED <<nodes, completed_topics>>

\* service.calculate_remaining_hours(completed)
CalculateRemainingHours(completed) ==
  /\ last' = Call("calculate_remaining_hours", completed,
                  Return(calculate_remaining_hours(nodes, completed)))
  /\ UNCHANGED <<nodes, completed_topics>>

\* audio_ui_service.process_audio_input(audio_file_path, user_progress), on
\* a service whose collaborators behave as `self` says
ProcessAudioInput(self, audio_file_path, user_progress) ==
  LET call == process_audio_input(self, audio_file_path, user_progress)
  IN /\ last' = Call("process_audio_input",
                     [audio_file_path |-> audio_file_path, user_progress |-> user_progress],
                     call.outcome)
     /\ invoked' = call.invoked
     /\ UNCHANGED <<nodes, completed_topics>>

\* openai_service.process_learning_query(query, sentiment_context, user_progress)
ProcessLearningQuery(client, query, sentiment_context, user_progress) ==
  LET call == process_learning_query(client, query, sentiment_context, user_progress)
  IN /\ last' = Call("process_learning_query",
                     [query |-> query, sentiment_context |-> sentiment_context,
                      user_progress |-> user_progress],
                     call.outcome)
     /\ invoked' = call.invoked
     /\ UNCHANGED <<nodes, completed_topics>>

\* openai_service.get_topic_specific_help(topic_id, user_question)
GetTopicSpecificHelp(client, topic_id, user_question) ==
  LET call == get_topic_specific_help(client, topic_id, user_question)
  IN /\ last' = Call("get_topic_specific_help",
                     [topic_id |-> topic_id, user_question |-> user_question],
                     call.outcome)
     /\ invoked' = call.invoked
     /\ UNCHANGED <<nodes, completed_topics>>

\* audio_ui_service.create_chatbot_response(message, sentiment_context,
\* user_progress), on an openai_service that gives, for each method, its
\* outcome and the provider calls it made
CreateChatbotResponse(openai_service, message, sentiment_context, user_progress) ==
  LET call == create_chatbot_response(
                [process_learning_query |-> openai_service.process_learning_query.outcome],
                message, sentiment_context, user_progress)
  IN /\ last' = Call("create_chatbot_response",
                     [message |-> message, sentiment_context |-> sentiment_context,
                      user_progress |-> user_progress],
                     call.outcome)
     /\ invoked' = openai_service.process_learning_query.invoked \o call.invoked
     /\ UNCHANGED <<nodes, completed_topics>>

\* audio_ui_service.get_topic_help(topic_id, question)
GetTopicHelp(openai_service, topic_id, question) ==
  LET call == get_topic_help(
                [get_topic_specific_help |-> openai_service.get_topic_specific_help.outcome],
                topic_id, question)
  IN /\ last' = Call("get_topic_help", [topic_id |-> topic_id, question |-> question],
                     call.outcome)
     /\ invoked' = openai_service.get_topic_specific_help.invoked \o call.invoked
     /\ UNCHANGED <<nodes, completed_topics>>

\* AudioUIService(OpenAIService(api_key), sentiment_service), for the audio
\* request at hand: what each collaborator's method gives when
\* process_audio_input calls it
AudioUIService(client, sentiment, audio_file_path, user_progress) ==
  LET transcribed == transcribe_audio(client, audio_file_path).outcome
  IN [transcribe_audio |-> transcribed,
      analyze_audio_sentiment |-> sentiment,
      process_learning_query |->
        IF IsRaise(transcribed) \/ IsRaise(sentiment) THEN Return("")
        ELSE process_learning_query(client, transcribed.value,
                                    create_sentiment_context(sentiment.value),
                                    user_progress).outcome]

\* create_gradio_app(): get_app_services() loads the default roadmap,
\* completed_topics = [], and the Progress Tracker of every page starts
\* from gr.HTML(value=update_progress_display())
CreateGradioApp ==
  /\ nodes = new_repository
  /\ LET store == load_default_roadmap(nodes)
         shown == update_progress_display(store, <<>>)
     IN /\ nodes' = store
        /\ completed_topics' = <<>>
        /\ last' = Call("create_gradio_app", None, shown.outcome)
        /\ invoked' = shown.invoked
        /\ progress_output' = [session \in Sessions |-> shown.outcome.value]

\* the callback op of the Progress Tracker, run for a session, leaves
\* `left` in completed_topics and returns update_progress_display()
ProgressCallback(session, op, arg, left) ==
  /\ nodes # new_repository
  /\ LET shown == update_progress_display(nodes, left)
     IN /\ completed_topics' = left
        /\ last' = Call(op, arg, shown.outcome)
        /\ invoked' = shown.invoked
        /\ progress_output' = [progress_output EXCEPT ![session] = shown.outcome.value]
  /\ UNCHANGED nodes

\* add_button.click: add_completed_topic(topic_id)
AddCompletedTopic(session, topic_id) ==
  ProgressCallback(session, "add_completed_topic",
                   [session |-> session, topic_id |-> topic_id],
                   add_completed_topic(completed_topics, topic_id))

\* remove_button.click: remove_completed_topic(topic_id)
RemoveCompletedTopic(session, topic_id) ==
  ProgressCallback(session, "remove_completed_topic",
                   [session |-> session, topic_id |-> topic_id],
                   remove_completed_topic(completed_topics, topic_id))

\* reset_button.click: reset_progress()
ResetProgress(session) ==
  ProgressCallback(session, "reset_progress", [session |-> session],
                   reset_progress(completed_topics))

\* msg.submit, send_btn.click: chatbot_respond(message, history);
\* configured tells whether the services were built with an OPENAI_API_KEY
ChatbotRespond(session, configured, client, message, history) ==
  /\ nodes # new_repository
  /\ LET progress == progress_of(completed_topics)
         queried == process_learning_query(client, message, "", progress)
         call == create_chatbot_response([process_learning_query |-> queried.outcome],
                                         message, "", progress)
         bot_response ==
           IF ~configured THEN "OpenAI API key not configured."
           ELSE IF IsRaise(call.outcome) THEN "Error: " \o call.outcome.message
           ELSE call.outcome.value
     IN /\ last' = Call("chatbot_respond",
                        [session |-> session, message |-> message, history |-> history],
                        Return([chatbot |-> Append(history, <<message, bot_response>>), msg |-> ""]))
        /\ invoked' = IF ~configured THEN <<>>
                      ELSE queried.invoked \o call.invoked
                             \o <<Invocation("create_chatbot_response",
                                             <<message, "", progress>>, call.outcome)>>
  /\ UNCHANGED <<nodes, completed_topics, progress_output>>

\* process_btn.click: process_audio_recording(audio_file)
ProcessAudioRecording(session, configured, client, sentiment, audio_file) ==
  /\ nodes # new_repository
  /\ LET progress == progress_of(completed_topics)
         path == IF audio_file = None THEN "" ELSE audio_file.value
         call == process_audio_input(AudioUIService(client, sentiment, path, progress),
                                     path, progress)
     IN /\ last' = Call("process_audio_recording",
                        [session |-> session, audio_file |-> audio_file],
                        Return(IF ~configured
                                 THEN AudioDisplays(
                                        "OpenAI API key not configured.",
                                        "Audio sentiment analysis requires OpenAI integration.",
                                        "AI responses require OpenAI integration.")
                               ELSE IF audio_file = None
                                 THEN AudioDisplays(
                                        "No audio recorded. Please record your question.",
                                        "No audio to analyze.", "No audio to process.")
                               ELSE format_audio_response(call.outcome.value)))
        /\ invoked' = IF ~configured \/ audio_file = None THEN <<>>
                      ELSE call.invoked
                             \o <<Invocation("process_audio_input", <<path, progress>>,
                                             call.outcome)>>
  /\ UNCHANGED <<nodes, completed_topics, progress_output>>

\* ui_service.create_progress_tracker_display(completed_topics)
CreateProgressTrackerDisplay(completed) ==
  /\ last' = Call("create_progress_tracker_display", completed,
                  Return(create_progress_tracker_display(nodes, completed)))
  /\ UNCHANGED <<nodes, completed_topics>>

\* audio_ui_service.process_audio_input(audio_file_path, user_progress), on
\* AudioUIService(OpenAIService(api_key), sentiment_service) with a
\* provider that behaves as `client` says
ProcessAudioInputOn(client, sentiment, audio_file_path, user_progress) ==
  LET call == process_audio_input(
                AudioUIService(client, sentiment, audio_file_path, user_progress),
                audio_file_path, user_progress)
  IN /\ last' = Call("process_audio_input",
                     [audio_file_path |-> audio_file_path, user_progress |-> user_progress,
                      client |-> client],
                     call.outcome)
     /\ invoked' = call.invoked
     /\ UNCHANGED <<nodes, completed_topics>>

\* the caller's list becomes `completed`: completed_topics = [...]
CallerHolds(completed) ==
  /\ completed_topics' = completed
  /\ UNCHANGED <<nodes, last>>

(***************************************************************************)
(* The queries as a thread runs them: every read of _nodes is a step of    *)
(* its own, between which the other threads run.  The locals of a call     *)
(* are the thread's; they are gone when the call returns.                  *)
(***************************************************************************)
\* (mutant of frame: path and visited are kept on the service, self.path
\* and self.visited, one pair for all the threads)
frame_of_service(t) == 1

\* the thread whose frame holds path and visited of the get_learning_path
\* call of thread t: they are locals of the call
frame(t) == t

\* thread t may begin a query
Free(t) == threads[t].pc # "running"

Running(t, op) == threads[t].pc = "running" /\ threads[t].op = op

\* thread t inside the query op(arg), with the given locals
Inside(op, arg, stack, local) ==
  [idle EXCEPT !.pc = "running", !.op = op, !.arg = arg, !.stack = stack, !.local = local]

\* thread t back from the query op(arg) with the value it returns
Back(op, arg, value) ==
  [idle EXCEPT !.pc = "done", !.op = op, !.arg = arg, !.result = value]

\* thread t becomes th; path and visited of its frame become walk
Becomes(t, th, walk) ==
  /\ threads' = [x \in Threads |->
        IF x = frame(t)
          THEN [(IF x = t THEN th ELSE threads[x]) EXCEPT !.walk = walk]
        ELSE IF x = t THEN [th EXCEPT !.walk = threads[t].walk]
        ELSE threads[x]]
  /\ UNCHANGED <<nodes, completed_topics, last, first, added, invoked, progress_output>>

\* repo.get_node_by_id(node_id), one read
RunGetNodeById(t, node_id) ==
  /\ Free(t)
  /\ Becomes(t, Back("get_node_by_id", node_id, get_node_by_id(nodes, node_id)),
             threads[frame(t)].walk)

\* repo.get_all_nodes(), one read
RunGetAllNodes(t) ==
  /\ Free(t)
  /\ Becomes(t, Back("get_all_nodes", None, get_all_nodes(nodes)), threads[frame(t)].walk)

\* get_roadmap_overview: nodes = self.repository.get_all_nodes()
BeginGetRoadmapOverview(t) ==
  /\ Free(t)
  /\ Becomes(t, Inside("get_roadmap_overview", None, <<>>,
                       [all_nodes |-> get_all_nodes(nodes)]),
             threads[frame(t)].walk)

\* get_roadmap_overview: the sum over the list read, and the return
EndGetRoadmapOverview(t) ==
  /\ Running(t, "get_roadmap_overview")
  /\ Becomes(t, Back("get_roadmap_overview", None,
                     get_roadmap_overview(threads[t].local.all_nodes)),
             threads[frame(t)].walk)

\* get_learning_path: the lookup of the target, path = [], visited = set()
\* and the call build_path(target_node_id)
BeginGetLearningPath(t, target_node_id) ==
  /\ Free(t)
  /\ IF get_node_by_id(nodes, target_node_id) = None
       THEN Becomes(t, Back("get_learning_path", target_node_id, <<>>),
                    threads[frame(t)].walk)
     ELSE Becomes(t, Inside("get_learning_path", target_node_id,
                            <<[node_id |-> target_node_id, node |-> None, i |-> 0]>>, None),
                  new_locals)

\* build_path: one step of the innermost call, which is entering (i = 0),
\* or at the prerequisite i of its node, or past the last one
StepBuildPath(t) ==
  /\ Running(t, "get_learning_path")
  /\ LET me == threads[t]
         walk == threads[frame(t)].walk
         top == me.stack[Len(me.stack)]
         rest == SubSeq(me.stack, 1, Len(me.stack) - 1)
         Return_(w) ==
           IF rest = <<>> THEN Becomes(t, Back(me.op, me.arg, w.path), new_locals)
           ELSE Becomes(t, [me EXCEPT !.stack = rest], w)
     IN IF top.i = 0
          THEN IF top.node_id \in walk.visited THEN Return_(walk)
               ELSE LET node == get_node_by_id(nodes, top.node_id)
                    IN IF node = None THEN Return_(walk)
                       ELSE Becomes(t,
                              [me EXCEPT !.stack = Append(rest, [top EXCEPT !.node = node,
                                                                            !.i = 1])],
                              [walk EXCEPT !.visited = @ \cup {top.node_id}])
        ELSE IF top.i <= Len(top.node.prerequisites)
          THEN Becomes(t,
                 [me EXCEPT !.stack =
                    Append(Append(rest, [top EXCEPT !.i = @ + 1]),
                           [node_id |-> top.node.prerequisites[top.i], node |-> None,
                            i |-> 0])],
                 walk)
        ELSE Return_([walk EXCEPT !.path = Append(@, top.node)])

\* get_prerequisites: the lookup of the node and prerequisites = []
BeginGetPrerequisites(t, node_id) ==
  /\ Free(t)
  /\ LET node == get_node_by_id(nodes, node_id)
     IN IF node = None
          THEN Becomes(t, Back("get_prerequisites", node_id, <<>>), threads[frame(t)].walk)
        ELSE Becomes(t, Inside("get_prerequisites", node_id, <<>>,
                               [node |-> node, i |-> 1, prerequisites |-> <<>>]),
                     threads[frame(t)].walk)

\* get_prerequisites: one turn of the loop, or the return after the last
StepGetPrerequisites(t) ==
  /\ Running(t, "get_prerequisites")
  /\ LET me == threads[t]
         loc == me.local
     IN IF loc.i > Len(loc.node.prerequisites)
          THEN Becomes(t, Back(me.op, me.arg, loc.prerequisites), threads[frame(t)].walk)
        ELSE LET prereq_node == get_node_by_id(nodes, loc.node.prerequisites[loc.i])
             IN Becomes(t,
                  [me EXCEPT !.local =
                     [loc EXCEPT !.i = @ + 1,
                                 !.prerequisites =
                                    IF prereq_node # None THEN Append(@, prereq_node)
                                    ELSE @]],
                  threads[frame(t)].walk)

\* get_next_recommended_topics: completed_set and all_nodes are read
BeginGetNextRecommendedTopics(t, completed) ==
  /\ Free(t)
  /\ Becomes(t, Inside("get_next_recommended_topics", completed, <<>>,
                       [completed_set |-> Elems(completed),
                        all_nodes |-> get_all_nodes(nodes)]),
             threads[frame(t)].walk)

\* get_next_recommended_topics: the loop over the list read, and the return
EndGetNextRecommendedTopics(t) ==
  /\ Running(t, "get_next_recommended_topics")
  /\ LET loc == threads[t].local
     IN Becomes(t, Back(threads[t].op, threads[t].arg,
                        recommend_from(loc.all_nodes, loc.completed_set, 1, new_recommended)),
                threads[frame(t)].walk)

\* calculate_remaining_hours: completed_set and all_nodes are read
BeginCalculateRemainingHours(t, completed) ==
  /\ Free(t)
  /\ Becomes(t, Inside("calculate_remaining_hours", completed, <<>>,
                       [completed_set |-> Elems(completed),
                        all_nodes |-> get_all_nodes(nodes)]),
             threads[frame(t)].walk)

\* calculate_remaining_hours: the loop over the list read, and the return
EndCalculateRemainingHours(t) ==
  /\ Running(t, "calculate_remaining_hours")
  /\ LET loc == threads[t].local
     IN Becomes(t, Back(threads[t].op, threads[t].arg,
                        remaining_from(loc.all_nodes, loc.completed_set, 1, 0)),
                threads[frame(t)].walk)

(***************************************************************************)
(* The inputs of the callers.                                              *)
(***************************************************************************)
PrereqLists == ListsUpTo(Ids, MaxPrereqs)

CompletedLists == ListsUpTo(Ids, MaxCompleted)

\* the prerequisites lists that name ids in the order of IdNames, each once
PrereqSets ==
  {p \in PrereqLists :
     \A i, j \in 1..Len(p) :
       i < j => \E a, b \in 1..Len(IdNames) : a < b /\ IdNames[a] = p[i] /\ IdNames[b] = p[j]}

(***************************************************************************)
(* SpecNode: callers construct nodes, valid and not.                       *)
(***************************************************************************)
NextNode ==
  /\ \E id \in Ids \cup {""}, title \in {"", "T"}, t \in NodeType,
        p \in PrereqLists, h \in 0..MaxHours :
        NewLearningNode(id, title, t, p, h)
  /\ UNCHANGED <<first, added, threads, invoked, progress_output>>

SpecNode == Init /\ [][NextNode]_vars

(***************************************************************************)
(* SpecPath: callers build a repository of TOPIC nodes with every          *)
(* prerequisites list over Ids, and ask for learning paths.                *)
(***************************************************************************)
PathNodes ==
  {LearningNode(id, "T", "topic", p, 1).value : id \in Ids, p \in PrereqLists}

NextPath ==
  /\ \/ \E n \in PathNodes : AddNode(n)
     \/ \E t \in Ids : GetLearningPath(t)
  /\ UNCHANGED <<first, added, threads, invoked, progress_output>>

SpecPath == Init /\ [][NextPath]_vars

(***************************************************************************)
(* SpecPrereqs: callers build the repositories of SpecPath and ask for the *)
(* prerequisites of nodes.                                                 *)
(***************************************************************************)
NextPrereqs ==
  /\ \/ \E n \in PathNodes : AddNode(n)
     \/ \E id \in Ids : GetPrerequisites(id)
  /\ UNCHANGED <<first, added, threads, invoked, progress_output>>

SpecPrereqs == Init /\ [][NextPrereqs]_vars

(***************************************************************************)
(* SpecTopics: callers build a repository of at most MaxTopicNodes nodes   *)
(* of every kind and ask for recommendations with every completed list.    *)
(***************************************************************************)
TopicNodes ==
  {LearningNode(id, "T", t, p, 1).value : id \in Ids, t \in NodeType, p \in PrereqSets}

NextTopics ==
  /\ \/ \E n \in TopicNodes :
          /\ n.id \in {nodes[i].id : i \in 1..Len(nodes)} \/ Len(nodes) < MaxTopicNodes
          /\ AddNode(n)
     \/ \E c \in CompletedLists : GetNextRecommendedTopics(c)
  /\ UNCHANGED <<first, added, threads, invoked, progress_output>>

SpecTopics == Init /\ [][NextTopics]_vars

(***************************************************************************)
(* SpecDangling: callers build the repositories of SpecTopics, which name  *)
(* more ids than they hold, and ask for paths, prerequisites and           *)
(* recommendations.                                                        *)
(***************************************************************************)
NextDangling ==
  /\ \/ \E n \in TopicNodes :
          /\ n.id \in {nodes[i].id : i \in 1..Len(nodes)} \/ Len(nodes) < MaxTopicNodes
          /\ AddNode(n)
     \/ \E t \in Ids : GetLearningPath(t)
     \/ \E id \in Ids : GetPrerequisites(id)
     \/ \E c \in CompletedLists : GetNextRecommendedTopics(c)
  /\ UNCHANGED <<first, added, threads, invoked, progress_output>>

SpecDangling == Init /\ [][NextDangling]_vars

(***************************************************************************)
(* SpecDefault: callers create the repository, load the default roadmap    *)
(* and make every query of it.                                             *)
(***************************************************************************)
\* the ids of the default roadmap, in the order they are added
DefaultIds == [i \in 1..Len(DefaultNodes) |-> DefaultNodes[i].value.id]

\* the lists of completed ids the callers pass: ids of the default roadmap,
\* in the order of the roadmap
DefaultCompleted ==
  {c \in ListsUpTo(1..Len(DefaultIds), MaxCompleted) :
     \A i, j \in 1..Len(c) : i < j => c[i] < c[j]}

NextDefault ==
  /\ \/ LoadDefaultRoadmap
     \/ \E id \in Elems(DefaultIds) : GetNodeById(id)
     \/ GetAllNodes
     \/ GetRoadmapOverview
     \/ \E t \in Elems(DefaultIds) : GetLearningPath(t)
     \/ \E id \in Elems(DefaultIds) : GetPrerequisites(id)
     \/ \E c \in DefaultCompleted :
          GetNextRecommendedTopics([k \in 1..Len(c) |-> DefaultIds[c[k]]])
     \/ \E c \in DefaultCompleted :
          CalculateRemainingHours([k \in 1..Len(c) |-> DefaultIds[c[k]]])
  /\ UNCHANGED <<first, added, threads, invoked, progress_output>>

SpecDefault == Init /\ [][NextDefault]_vars

(***************************************************************************)
(* SpecHours: callers load the default roadmap or build a repository of    *)
(* nodes of every kind and effort, overwrite nodes, and ask for the        *)
(* overview and the remaining hours.                                       *)
(***************************************************************************)
HourNodes ==
  {LearningNode(id, "T", t, <<>>, h).value : id \in Ids, t \in NodeType, h \in 1..MaxHours}

NextHours ==
  /\ \/ \E n \in HourNodes : AddNode(n)
     \/ LoadDefaultRoadmap
     \/ GetRoadmapOverview
     \/ \E c \in CompletedLists : CalculateRemainingHours(c)
  /\ UNCHANGED <<first, added, threads, invoked, progress_output>>

SpecHours == Init /\ [][NextHours]_vars

(***************************************************************************)
(* SpecAdds: as SpecHours without the default roadmap, with the log `added`*)
(* of the nodes passed to add_node, MaxAdds calls long.                    *)
(***************************************************************************)
NextAdds ==
  /\ \/ \E n \in HourNodes :
          /\ Len(added) < MaxAdds
          /\ AddNode(n)
          /\ added' = Append(added, n)
     \/ GetRoadmapOverview /\ UNCHANGED added
  /\ UNCHANGED <<first, threads, invoked, progress_output>>

SpecAdds == Init /\ [][NextAdds]_vars

(***************************************************************************)
(* Spec: every call of the repository and the service, on a few nodes and  *)
(* lists, with the observer `first`: the first service query made since    *)
(* the last add_node, and whether another query has been made after it.    *)
(***************************************************************************)
SomeNodes ==
  { LearningNode("start", "Start", "start", <<>>, 0).value,
    LearningNode("llm-apis", "LLM APIs", "topic", <<"start">>, 1).value,
    LearningNode("model-adaptation", "Model Adaptation", "topic",
                 <<"llm-apis", "start">>, 2).value,
    LearningNode("start", "Start", "topic", <<"model-adaptation">>, 1).value }

SomeLists == { <<>>, <<"start">>, <<"start", "llm-apis">>, <<"llm-apis", "llm-apis">> }

Observe ==
  first' = IF first = None THEN [call |-> last', later |-> FALSE]
           ELSE [first EXCEPT !.later = TRUE]

Next ==
  /\ \/ (\E n \in SomeNodes : AddNode(n)) /\ first' = None /\ UNCHANGED added
     \/ (\E c \in SomeLists : CallerHolds(c)) /\ UNCHANGED <<first, added>>
     \/ (\E id \in Ids : GetNodeById(id)) /\ UNCHANGED <<first, added>>
     \/ GetAllNodes /\ UNCHANGED <<first, added>>
     \/ GetRoadmapOverview /\ Observe /\ UNCHANGED added
     \/ (\E t \in Ids : GetLearningPath(t)) /\ Observe /\ UNCHANGED added
     \/ (\E id \in Ids : GetPrerequisites(id)) /\ Observe /\ UNCHANGED added
     \/ GetNextRecommendedTopics(completed_topics) /\ Observe /\ UNCHANGED added
     \/ CalculateRemainingHours(completed_topics) /\ Observe /\ UNCHANGED added
  /\ UNCHANGED <<threads, invoked, progress_output>>

Spec == Init /\ [][Next]_vars

(***************************************************************************)
(* SpecConcurrent: the host fills the repository before any thread makes a *)
(* query (spec section 5: population completes before any read); from then *)
(* on the threads make queries, step by step, in every interleaving.       *)
(***************************************************************************)
NextConcurrent ==
  \/ /\ \A t \in Threads : threads[t].pc = "idle"
     /\ \E n \in SomeNodes : AddNode(n)
     /\ UNCHANGED <<first, added, threads, invoked, progress_output>>
  \/ \E t \in Threads :
       \/ \E id \in Ids : RunGetNodeById(t, id)
       \/ RunGetAllNodes(t)
       \/ BeginGetRoadmapOverview(t)
       \/ EndGetRoadmapOverview(t)
       \/ \E target \in Ids : BeginGetLearningPath(t, target)
       \/ StepBuildPath(t)
       \/ \E id \in Ids : BeginGetPrerequisites(t, id)
       \/ StepGetPrerequisites(t)
       \/ \E c \in SomeLists : BeginGetNextRecommendedTopics(t, c)
       \/ EndGetNextRecommendedTopics(t)
       \/ \E c \in SomeLists : BeginCalculateRemainingHours(t, c)
       \/ EndCalculateRemainingHours(t)

SpecConcurrent == Init /\ [][NextConcurrent]_vars

(***************************************************************************)
(* SpecAudio: audio requests on a service whose collaborators return or    *)
(* raise, in every combination.                                            *)
(***************************************************************************)
AudioFiles == {"test_audio.wav", "missing.wav"}

Progress == {None, [completed_topics |-> <<"start">>]}

\* what transcribe_audio gives: a text, or the RuntimeError it raises
Transcriptions ==
  { Return("I want to learn about AI agents"), Return("What is RAG?"), Return(""),
    Raise("RuntimeError", "Error transcribing audio: Connection error.") }

\* what analyze_audio_sentiment gives for a file: its result, with or
\* without the optional keys, or the error it raises
Sentiments(audio_file_path) ==
  { Return([sentiment |-> [emotion |-> "excited", confidence |-> 80,
                           analysis |-> "High energy detected"],
            features |-> [energy |-> "high"],
            recommendation |-> "Great energy! Perfect for AI Agents topic."]),
    Return([sentiment |-> [emotion |-> "stressed", confidence |-> 5]]),
    Return(empty_dict),
    Raise("FileNotFoundError", "Audio file not found: " \o audio_file_path),
    Raise("RuntimeError", "Error analyzing audio features: bad file") }

\* what process_learning_query gives: a reply, or what it raises
Replies ==
  { Return("AI agents are autonomous systems..."),
    Return("Start with the LLM APIs."),
    Raise("Exception", "API Error") }

NextAudio ==
  /\ \E audio_file_path \in AudioFiles, user_progress \in Progress,
        transcription \in Transcriptions, reply \in Replies :
        \E sentiment \in Sentiments(audio_file_path) :
          ProcessAudioInput([transcribe_audio |-> transcription,
                             analyze_audio_sentiment |-> sentiment,
                             process_learning_query |-> reply],
                            audio_file_path, user_progress)
  /\ UNCHANGED <<first, added, threads, progress_output>>

SpecAudio == Init /\ [][NextAudio]_vars

(***************************************************************************)
(* SpecProvider: audio requests to the service built on a real             *)
(* OpenAIService, whose provider transcribes or fails and completes or     *)
(* fails.                                                                  *)
(***************************************************************************)
Providers ==
  { [whisper |-> whisper, chat |-> chat] :
      whisper \in { Return("I want to learn about AI agents"), Return("What is RAG?"),
                    Return(""), Raise("APIConnectionError", "Connection error.") },
      chat \in { Return("AI agents are autonomous systems..."),
                 Raise("Exception", "API Error"),
                 Raise("RateLimitError", "Rate limit exceeded") } }

NextProvider ==
  /\ \E client \in Providers, audio_file_path \in AudioFiles, user_progress \in Progress :
       \E sentiment \in Sentiments(audio_file_path) :
         ProcessAudioInputOn(client, sentiment, audio_file_path, user_progress)
  /\ UNCHANGED <<first, added, threads, progress_output>>

SpecProvider == Init /\ [][NextProvider]_vars

(***************************************************************************)
(* SpecPopulate: load_default_roadmap runs on the empty repository one     *)
(* add_node call at a time, while the threads make get_learning_path and   *)
(* get_prerequisites queries of it, step by step, in every interleaving.   *)
(***************************************************************************)
\* load_default_roadmap: its next add_node call; `added` is the log of them
LoadNext ==
  /\ Len(added) < Len(DefaultNodes)
  /\ AddNode(node_added(Len(added) + 1))
  /\ added' = Append(added, node_added(Len(added) + 1))
  /\ UNCHANGED <<first, threads, invoked, progress_output>>

NextPopulate ==
  \/ LoadNext
  \/ \E t \in Threads :
       \/ \E target \in Elems(DefaultIds) : BeginGetLearningPath(t, target)
       \/ StepBuildPath(t)
       \/ \E id \in Elems(DefaultIds) : BeginGetPrerequisites(t, id)
       \/ StepGetPrerequisites(t)

SpecPopulate == Init /\ [][NextPopulate]_vars

(***************************************************************************)
(* SpecDisplay: the default roadmap is loaded and the Progress Tracker is  *)
(* asked for with lists of its ids: the lists, in the order of the         *)
(* roadmap, of at most MaxCompleted ids and of all but at most             *)
(* MaxCompleted ids, and a list that names an id twice.                    *)
(***************************************************************************)
\* the ids of the default roadmap at the places S, in the order of the roadmap
RECURSIVE InOrder(_)
InOrder(S) ==
  IF S = {} THEN <<>>
  ELSE LET least == CHOOSE x \in S : \A y \in S : x <= y
       IN <<DefaultIds[least]>> \o InOrder(S \ {least})

DisplayLists ==
  {InOrder(S) : S \in {S \in SUBSET (1..Len(DefaultIds)) :
                         \/ Cardinality(S) <= MaxCompleted
                         \/ Cardinality(S) >= Len(DefaultIds) - MaxCompleted}}
    \cup {<<"start", "start">>}

NextDisplay ==
  /\ \/ LoadDefaultRoadmap
     \/ nodes # new_repository /\ \E c \in DisplayLists : CreateProgressTrackerDisplay(c)
  /\ UNCHANGED <<first, added, threads, invoked, progress_output>>

SpecDisplay == Init /\ [][NextDisplay]_vars

(***************************************************************************)
(* SpecStudy: a caller loads the default roadmap, asks for the recommended *)
(* topics, holds [start] as its list of completed topics and then, again   *)
(* and again, asks and appends one of the recommended topics to its list.  *)
(* SpecStudyFair: the caller goes on appending for as long as a topic is   *)
(* recommended.                                                            *)
(***************************************************************************)
\* one of the recommended topics is marked as completed
MarkRecommended ==
  /\ completed_topics # <<>>
  /\ LET recommended == get_next_recommended_topics(nodes, completed_topics)
     IN \E k \in 1..Len(recommended) :
          CallerHolds(Append(completed_topics, recommended[k].id))
  /\ UNCHANGED <<first, added, threads, invoked, progress_output>>

NextStudy ==
  \/ /\ \/ LoadDefaultRoadmap
        \/ /\ last.op = "get_next_recommended_topics"
           /\ completed_topics = <<>>
           /\ CallerHolds(<<"start">>)
        \/ nodes # new_repository /\ GetNextRecommendedTopics(completed_topics)
     /\ UNCHANGED <<first, added, threads, invoked, progress_output>>
  \/ MarkRecommended

SpecStudy == Init /\ [][NextStudy]_vars

SpecStudyFair == SpecStudy /\ WF_completed_topics(MarkRecommended)

(***************************************************************************)
(* SpecApp: the application is created, and the sessions press the buttons *)
(* of the Progress Tracker, write to the chatbot and send recordings, each *)
(* callback run to its end before the next one starts.                     *)
(***************************************************************************)
\* what the dropdown hands over: nothing, an empty value, or an id
DropdownValues == {None, Str("")} \cup {Str(id) : id \in Ids}

AudioInputs == {None, Str("test_audio.wav")}

Histories == {<<>>, <<<<"Hello", "Hi! What do you want to learn?">>>>}

AppClients ==
  { [chat |-> Return("AI-generated response about learning"),
     whisper |-> Return("I want to learn about AI agents")],
    [chat |-> Raise("Exception", "API Error"),
     whisper |-> Raise("Exception", "API Error")] }

AppSentiments ==
  { Return([sentiment |-> [emotion |-> "excited", confidence |-> 80,
                           analysis |-> "High energy detected"],
            recommendation |-> "Great energy! Perfect for AI Agents topic."]),
    Raise("RuntimeError", "Error analyzing audio features: bad file") }

NextApp ==
  /\ \/ CreateGradioApp
     \/ \E session \in Sessions :
          \/ \E topic_id \in DropdownValues : AddCompletedTopic(session, topic_id)
          \/ \E topic_id \in DropdownValues : RemoveCompletedTopic(session, topic_id)
          \/ ResetProgress(session)
          \/ \E configured \in BOOLEAN, client \in AppClients, history \in Histories :
               ChatbotRespond(session, configured, client, "How do I start learning AI?",
                              history)
          \/ \E configured \in BOOLEAN, client \in AppClients,
                sentiment \in AppSentiments, audio_file \in AudioInputs :
               ProcessAudioRecording(session, configured, client, sentiment, audio_file)
  /\ UNCHANGED <<first, added, threads>>

SpecApp == Init /\ [][NextApp]_vars

(***************************************************************************)
(* SpecSigned: callers build a repository of TOPIC nodes of every effort   *)
(* an int can tell, the negative ones included, which __post_init__ lets   *)
(* through, and ask for the overview and the remaining hours.              *)
(***************************************************************************)
SignedNodes ==
  {LearningNode(id, "T", "topic", <<>>, h).value : id \in Ids, h \in (-1)..MaxHours}

NextSigned ==
  /\ \/ \E n \in SignedNodes : AddNode(n)
     \/ GetRoadmapOverview
     \/ \E c \in CompletedLists : CalculateRemainingHours(c)
  /\ UNCHANGED <<first, added, threads, invoked, progress_output>>

SpecSigned == Init /\ [][NextSigned]_vars

(***************************************************************************)
(* The text requests: the two methods of OpenAIService that ask the        *)
(* language model, and the two of AudioUIService that wrap them, on a      *)
(* provider that answers or fails and on an openai_service that raises.    *)
(***************************************************************************)
Queries == {"How do I start learning AI?", ""}

SentimentContexts == {"", "User's emotional state: excited (confidence: 0.80). Audio analysis: "}

ChatProgress ==
  { None, empty_dict, [completed_topics |-> <<>>],
    [completed_topics |-> <<"start">>], [completed_topics |-> <<"start", "llm-apis">>] }

TopicIds == {"ai-agents", "unknown-topic"}

\* what the provider gives: the content of its first choice, or the error
\* the client library raises
Clients ==
  { [chat |-> chat, whisper |-> Return("")] :
      chat \in { Return("AI-generated response about learning"), Return(""),
                 Raise("Exception", "API Error"),
                 Raise("APIConnectionError", "Connection error.") } }

\* OpenAIService(api_key) on a provider, for the call at hand
OpenAIService(client, query, sentiment_context, user_progress, topic_id) ==
  [process_learning_query |->
     process_learning_query(client, query, sentiment_context, user_progress),
   get_topic_specific_help |-> get_topic_specific_help(client, topic_id, query)]

\* an openai_service whose methods raise, as a test double does
RaisingService ==
  [process_learning_query |->
     [outcome |-> Raise("Exception", "Service unavailable"), invoked |-> <<>>],
   get_topic_specific_help |->
     [outcome |-> Raise("Exception", "Service unavailable"), invoked |-> <<>>]]

NextChat ==
  /\ \E client \in Clients, query \in Queries, sentiment_context \in SentimentContexts,
        user_progress \in ChatProgress, topic_id \in TopicIds :
        \/ ProcessLearningQuery(client, query, sentiment_context, user_progress)
        \/ GetTopicSpecificHelp(client, topic_id, query)
        \/ \E openai_service \in
                { OpenAIService(client, query, sentiment_context, user_progress, topic_id),
                  RaisingService } :
             \/ CreateChatbotResponse(openai_service, query, sentiment_context, user_progress)
             \/ GetTopicHelp(openai_service, topic_id, query)
  /\ UNCHANGED <<first, added, threads, progress_output>>

SpecChat == Init /\ [][NextChat]_vars

(***************************************************************************)
(* The prerequisite relation and the other notions the claims use, stated  *)
(* on the repository contents without reference to the service's loops.    *)
(***************************************************************************)
StoredIds(store) == {store[i].id : i \in 1..Len(store)}

\* the stored node of a stored id
StoredNode(store, id) == CHOOSE n \in Elems(store) : n.id = id

\* the stored ids that the stored nodes of the ids in S list as prerequisites
DirectPrereqs(store, S) ==
  {p \in StoredIds(store) :
     \E id \in S \cap StoredIds(store) : p \in Elems(StoredNode(store, id).prerequisites)}

\* the least set holding S and closed under DirectPrereqs
RECURSIVE PrereqClosure(_, _)
PrereqClosure(store, S) ==
  LET T == S \cup DirectPrereqs(store, S)
  IN IF T = S THEN S ELSE PrereqClosure(store, T)

\* the stored ids reached from id by one or more prerequisite steps
Ancestors(store, id) == PrereqClosure(store, DirectPrereqs(store, {id}))

\* the positions of id in a list of nodes
Positions(path, id) == {k \in 1..Len(path) : path[k].id = id}

\* the sum of f over the finite set S
RECURSIVE SumOver(_, _)
SumOver(S, f) ==
  IF S = {} THEN 0
  ELSE LET x == CHOOSE x \in S : TRUE IN f[x] + SumOver(S \ {x}, f)

\* the value the last call returned
Returned == last.outcome.value

(***************************************************************************)
(* C1                                                                      *)
(***************************************************************************)
\* C1, as claimed: for every store and every stored target, the path ends with
\* the target's node, and every stored prerequisite of a node of the path
\* stands at an earlier position than that node.
C1_EveryStore ==
  (last.op = "get_learning_path" /\ last.arg \in StoredIds(nodes)) =>
    LET path == Returned
    IN /\ Len(path) > 0
       /\ path[Len(path)] = StoredNode(nodes, last.arg)
       /\ \A k \in 1..Len(path) :
            \A p \in Elems(path[k].prerequisites) \cap StoredIds(nodes) :
              \E j \in 1..(k - 1) : path[j].id = p

\* C1, amended: for every store and every stored target, the path ends with
\* the target's node, and every stored prerequisite p of a node n of the path
\* is in the path, at an earlier position than n unless n is an ancestor of p
\* (n and p lie on a prerequisite cycle; n listing itself is such a cycle).
C1_PrereqsFirstUnlessCycle ==
  (last.op = "get_learning_path" /\ last.arg \in StoredIds(nodes)) =>
    LET path == Returned
    IN /\ Len(path) > 0
       /\ path[Len(path)] = StoredNode(nodes, last.arg)
       /\ \A k \in 1..Len(path) :
            \A p \in Elems(path[k].prerequisites) \cap StoredIds(nodes) :
              \/ \E j \in 1..(k - 1) : path[j].id = p
              \/ /\ path[k].id \in Ancestors(nodes, p)
                 /\ Positions(path, p) # {}

\* a path call in a store without a cycle, whose target has two stored
\* prerequisites, one of them with a prerequisite of its own
C1_Witness ==
  /\ last.op = "get_learning_path"
  /\ Len(Returned) = 3
  /\ \A id \in StoredIds(nodes) : id \notin Ancestors(nodes, id)
  /\ Cardinality(Elems(Returned[3].prerequisites) \cap StoredIds(nodes)) = 2
  /\ Returned[2].prerequisites # <<>>

(***************************************************************************)
(* C2                                                                      *)
(***************************************************************************)
\* C2: the ids of the path are exactly the target and its ancestors, the
\* nodes are the stored ones, and each of them stands in the path exactly
\* once, also when it is reached along several routes.
C2_AncestorClosureOnce ==
  (last.op = "get_learning_path" /\ last.arg \in StoredIds(nodes)) =>
    LET path == Returned
    IN /\ {path[k].id : k \in 1..Len(path)} = {last.arg} \cup Ancestors(nodes, last.arg)
       /\ \A k \in 1..Len(path) : path[k] = StoredNode(nodes, path[k].id)
       /\ \A k \in 1..Len(path) : Positions(path, path[k].id) = {k}

\* a path call whose target reaches one ancestor along two routes
C2_Witness ==
  /\ last.op = "get_learning_path"
  /\ Len(Returned) = 3
  /\ Returned[1].id \in Elems(Returned[2].prerequisites)
  /\ Returned[1].id \in Elems(Returned[3].prerequisites)
  /\ Returned[2].id \in Elems(Returned[3].prerequisites)

(***************************************************************************)
(* C3                                                                      *)
(***************************************************************************)
\* whether the rule of C3 recommends node n for the completed ids in done
Recommendable(n, done) ==
  /\ n.id \notin done
  /\ n.node_type = "topic"
  /\ Elems(n.prerequisites) \subseteq done

\* C3: the recommendation is the list of the stored nodes that are not
\* completed, are of kind TOPIC and have every prerequisite completed, in
\* the store's iteration order; no START, END or completed node is in it.
C3_RecommendedExactly ==
  last.op = "get_next_recommended_topics" =>
    LET done == Elems(last.arg)
    IN /\ Returned = SelectSeq(nodes, LAMBDA n : Recommendable(n, done))
       /\ \A k \in 1..Len(Returned) :
            /\ Returned[k].node_type \notin {"start", "end"}
            /\ Returned[k].id \notin done

\* a recommendation call on a store of a recommended TOPIC whose two
\* prerequisites are completed, and a node that is not recommended
C3_Witness ==
  /\ last.op = "get_next_recommended_topics"
  /\ Len(nodes) = 2
  /\ Len(Returned) = 1
  /\ Len(Returned[1].prerequisites) = 2

(***************************************************************************)
(* C4                                                                      *)
(***************************************************************************)
\* whether a list names no id twice
NoDuplicates(list) == \A i, j \in 1..Len(list) : list[i] = list[j] => i = j

\* C4: for a completed list without duplicates whose ids are all stored,
\* the remaining hours and the hours of the nodes the list names add up to
\* the overview's total; on the default roadmap the remaining hours of
\* ["start", "llm-apis"] are 255.
C4_RemainingPlusCompleted ==
  last.op = "calculate_remaining_hours" =>
    /\ (NoDuplicates(last.arg) /\ Elems(last.arg) \subseteq StoredIds(nodes)) =>
          Returned + SumOver(Elems(last.arg),
                             [id \in Elems(last.arg) |->
                                StoredNode(nodes, id).estimated_hours])
            = get_roadmap_overview(nodes).estimated_total_hours
    /\ (StoredIds(nodes) = {DefaultNodes[i].value.id : i \in 1..Len(DefaultNodes)}
          /\ \A i \in 1..Len(DefaultNodes) : nodes[i] = DefaultNodes[i].value
          /\ last.arg = <<"start", "llm-apis">>) =>
          Returned = 255

\* the remaining hours of ["start", "llm-apis"] on the default roadmap
C4_Witness ==
  /\ last.op = "calculate_remaining_hours"
  /\ last.arg = <<"start", "llm-apis">>
  /\ Len(nodes) = 11
  /\ \A i \in 1..Len(DefaultNodes) : nodes[i] = DefaultNodes[i].value
  /\ Returned = 255

(***************************************************************************)
(* C5                                                                      *)
(***************************************************************************)
\* the node passed to the last add_node call of the log that had this id
LastAdded(log, id) ==
  log[CHOOSE i \in 1..Len(log) :
        /\ log[i].id = id
        /\ \A j \in (i + 1)..Len(log) : log[j].id # id]

\* C5, as claimed: after any sequence of add_node calls the overview counts
\* the nodes added and sums their hours.
C5_CountsEveryAdd ==
  last.op = "get_roadmap_overview" =>
    /\ Returned.total_nodes = Len(added)
    /\ Returned.estimated_total_hours =
         SumOver(1..Len(added), [i \in 1..Len(added) |-> added[i].estimated_hours])

\* C5, amended: after any sequence of add_node calls the overview counts the
\* distinct ids added and sums the hours of the node added last under each
\* id, whatever the kinds of the nodes.
C5_CountsLastAddPerId ==
  last.op = "get_roadmap_overview" =>
    LET ids == {added[i].id : i \in 1..Len(added)}
    IN /\ Returned.total_nodes = Cardinality(ids)
       /\ Returned.estimated_total_hours =
            SumOver(ids, [id \in ids |-> LastAdded(added, id).estimated_hours])

\* an overview after three adds, one of them overwriting a node with other
\* hours, with a START or END node among those stored
C5_Witness ==
  /\ last.op = "get_roadmap_overview"
  /\ Len(added) = 3
  /\ Returned.total_nodes = 2
  /\ \E i, j \in 1..3 : /\ i < j
                         /\ added[i].id = added[j].id
                         /\ added[i].estimated_hours # added[j].estimated_hours
  /\ \E i \in 1..Len(nodes) : nodes[i].node_type # "topic"

(***************************************************************************)
(* C6                                                                      *)
(***************************************************************************)
RepositoryQueries == {"get_node_by_id", "get_all_nodes"}

ServiceQueries ==
  {"get_roadmap_overview", "get_learning_path", "get_prerequisites",
   "get_next_recommended_topics", "calculate_remaining_hours"}

\* C6: every query of the repository and of the service returns and raises
\* nothing, whatever the store and the arguments; for an id the store does
\* not hold get_node_by_id returns None and get_learning_path and
\* get_prerequisites return the empty list.
C6_QueriesTotal ==
  last.op \in RepositoryQueries \cup ServiceQueries =>
    /\ ~IsRaise(last.outcome)
    /\ last.outcome.py = "return"
    /\ (last.op = "get_node_by_id" /\ last.arg \notin StoredIds(nodes)) => Returned = None
    /\ (last.op \in {"get_learning_path", "get_prerequisites"}
          /\ last.arg \notin StoredIds(nodes)) => Returned = <<>>

\* a lookup of an id the store does not hold, in a store that holds a node
\* listing that id as a prerequisite
C6_Witness ==
  /\ last.op \in {"get_node_by_id", "get_learning_path", "get_prerequisites"}
  /\ last.arg \notin StoredIds(nodes)
  /\ \E i \in 1..Len(nodes) : last.arg \in Elems(nodes[i].prerequisites)
  /\ last.outcome = Return(IF last.op = "get_node_by_id" THEN None ELSE <<>>)

(***************************************************************************)
(* C7                                                                      *)
(***************************************************************************)
\* C7: a construction raises ValueError exactly when the id or the title is
\* empty, with the message of the id when the id is empty (the id is
\* checked first); every other construction returns the node of the fields
\* passed.
C7_ConstructionFailsOnEmpty ==
  last.op = "LearningNode" =>
    /\ IsRaise(last.outcome) <=> (last.arg.id = "" \/ last.arg.title = "")
    /\ last.arg.id = "" =>
          last.outcome = Raise("ValueError", "Node ID cannot be empty")
    /\ (last.arg.id # "" /\ last.arg.title = "") =>
          last.outcome = Raise("ValueError", "Node title cannot be empty")
    /\ (last.arg.id # "" /\ last.arg.title # "") =>
          /\ last.outcome.py = "return"
          /\ Returned = last.arg

\* a construction with both the id and the title empty
C7_Witness ==
  /\ last.op = "LearningNode"
  /\ last.arg.id = ""
  /\ last.arg.title = ""
  /\ IsRaise(last.outcome)

(***************************************************************************)
(* C8                                                                      *)
(***************************************************************************)
\* C8: a step that calls add_node(n) leaves n as the one node stored under
\* n.id, leaves every node of another id as and where it was, makes the
\* store one node longer when n.id was not stored and leaves its length
\* when it was, and raises nothing.
C8_AddNodeUpserts ==
  [][last'.op = "add_node" =>
       LET n == last'.arg
       IN /\ \E i \in 1..Len(nodes') :
               /\ nodes'[i] = n
               /\ \A j \in 1..Len(nodes') : nodes'[j].id = n.id => j = i
          /\ \A i \in 1..Len(nodes) : nodes[i].id # n.id => nodes'[i] = nodes[i]
          /\ Len(nodes') = IF n.id \in StoredIds(nodes) THEN Len(nodes) ELSE Len(nodes) + 1
          /\ last'.outcome = Return(None)]_vars

\* an add_node that has overwritten the first of two stored nodes
C8_Witness ==
  /\ last.op = "add_node"
  /\ Len(nodes) = 2
  /\ nodes[1] = last.arg

(***************************************************************************)
(* C9                                                                      *)
(***************************************************************************)
\* a step that ends with another call in `last` than it began with
NewCall ==
  \/ last'.op # last.op
  \/ last'.arg # last.arg
  \/ last'.outcome # last.outcome

Resolving(store, prereq_ids) == SelectSeq(prereq_ids, LAMBDA p : p \in StoredIds(store))

\* C11: get_prerequisites returns the stored nodes of the ids its node lists,
\* one per listed id that the store holds, in listed order, and nothing
\* else; for an id the store does not hold it returns the empty list.
C11_DirectPrerequisitesOnly ==
  last.op = "get_prerequisites" =>
    IF last.arg \notin StoredIds(nodes) THEN last.outcome = Return(<<>>)
    ELSE LET kept == Resolving(nodes, StoredNode(nodes, last.arg).prerequisites)
         IN /\ last.outcome.py = "return"
            /\ Len(Returned) = Len(kept)
            /\ \A k \in 1..Len(kept) : Returned[k] = StoredNode(nodes, kept[k])

\* a call for a node that lists an id the store does not hold and a stored
\* prerequisite which has a stored prerequisite of its own, not returned
C11_Witness ==
  /\ last.op = "get_prerequisites"
  /\ last.arg \in StoredIds(nodes)
  /\ Elems(StoredNode(nodes, last.arg).prerequisites) \ StoredIds(nodes) # {}
  /\ Len(Returned) = 1
  /\ Returned[1].id # last.arg
  /\ Elems(Returned[1].prerequisites) \cap StoredIds(nodes) # {}

(***************************************************************************)
(* C12                                                                     *)
(***************************************************************************)
\* C12: on every store, with or without cycles and nodes listing themselves,
\* get_learning_path returns a list and raises nothing, and expands no
\* stored node twice: an expansion is a pass of build_path beyond its two
\* guards, which appends its node to the path once, so the path holds
\* stored nodes only, no id twice, and is no longer than the store.
C12_ReturnsOnCycles ==
  last.op = "get_learning_path" =>
    /\ last.outcome.py = "return"
    /\ Len(Returned) <= Len(nodes)
    /\ \A k \in 1..Len(Returned) : Returned[k] \in Elems(nodes)
    /\ \A id \in StoredIds(nodes) : Cardinality(Positions(Returned, id)) <= 1

\* a path call for a node that lists itself and lies on a longer cycle too
C12_Witness ==
  /\ last.op = "get_learning_path"
  /\ last.arg \in StoredIds(nodes)
  /\ last.arg \in Elems(StoredNode(nodes, last.arg).prerequisites)
  /\ \E id \in StoredIds(nodes) \ {last.arg} :
        /\ id \in Ancestors(nodes, last.arg)
        /\ last.arg \in Ancestors(nodes, id)
  /\ Len(Returned) >= 2

(***************************************************************************)
(* C13                                                                     *)
(***************************************************************************)
\* a list of nodes in which the node of id lists x no more
Skipping(list, id, x) ==
  [k \in 1..Len(list) |->
     IF list[k].id = id
       THEN [list[k] EXCEPT !.prerequisites = SelectSeq(@, LAMBDA p : p # x)]
     ELSE list[k]]

\* the pairs of a stored id and an id it lists that the store does not hold
DanglingPairs(store) ==
  {pair \in StoredIds(store) \X Ids :
     /\ pair[2] \in Elems(StoredNode(store, pair[1]).prerequisites)
     /\ pair[2] \notin StoredIds(store)}

\* what the last call returns on the given store
Recomputed(store) ==
  CASE last.op = "get_learning_path" -> get_learning_path(store, last.arg)
    [] last.op = "get_prerequisites" -> get_prerequisites(store, last.arg)
    [] last.op = "get_next_recommended_topics" ->
         get_next_recommended_topics(store, last.arg)

\* whether two lists of nodes are the same, element by element
SameList(a, b) == Len(a) = Len(b) /\ \A k \in 1..Len(a) : a[k] = b[k]

\* C13, as claimed: each of the three operations returns what it returns on
\* the store in which a node lists an unresolved id no more (the returned
\* nodes being the same but for that list).
C13_SkippedEverywhere ==
  last.op \in {"get_learning_path", "get_prerequisites", "get_next_recommended_topics"} =>
    \A pair \in DanglingPairs(nodes) :
      SameList(Recomputed(Skipping(nodes, pair[1], pair[2])),
               Skipping(Returned, pair[1], pair[2]))

\* C13, amended: get_learning_path and get_prerequisites return what they
\* return on the store in which a node lists an unresolved id no more;
\* get_next_recommended_topics does so when the completed list holds that
\* id, and otherwise does not recommend the node that lists it.
C13_SkippedByPathAndPrerequisites ==
  \A pair \in DanglingPairs(nodes) :
    /\ last.op \in {"get_learning_path", "get_prerequisites"} =>
          SameList(Recomputed(Skipping(nodes, pair[1], pair[2])),
                   Skipping(Returned, pair[1], pair[2]))
    /\ last.op = "get_next_recommended_topics" =>
          IF pair[2] \in Elems(last.arg)
            THEN SameList(Recomputed(Skipping(nodes, pair[1], pair[2])),
                          Skipping(Returned, pair[1], pair[2]))
          ELSE Positions(Returned, pair[1]) = {}

\* a recommendations call that leaves out a TOPIC node whose only
\* prerequisite is an id the store does not hold, and which is returned once
\* the node lists that id no more
C13_Witness ==
  /\ last.op = "get_next_recommended_topics"
  /\ \E pair \in DanglingPairs(nodes) :
        /\ StoredNode(nodes, pair[1]).prerequisites = <<pair[2]>>
        /\ Positions(Returned, pair[1]) = {}
        /\ Positions(Recomputed(Skipping(nodes, pair[1], pair[2])), pair[1]) # {}

(***************************************************************************)
(* C14                                                                     *)
(***************************************************************************)
\* the store has been filled: in SpecDefault, by load_default_roadmap
Loaded == nodes # new_repository

\* the position of id in a list of nodes without repeated ids
Position(list, id) == CHOOSE k \in 1..Len(list) : list[k].id = id

\* C14: load_default_roadmap on a new store leaves the eleven nodes of the
\* ids named, and the overview of that store is 11 nodes and 275 hours.
C14_ElevenNodes275Hours ==
  /\ Loaded =>
        /\ Len(nodes) = 11
        /\ StoredIds(nodes) =
             {"start", "llm-apis", "model-adaptation", "storage-retrieval",
              "infrastructure", "ai-agents", "rag-agentic", "observability-evaluation",
              "security", "forward-looking", "ai-engineer"}
  /\ (Loaded /\ last.op = "get_roadmap_overview") =>
        last.outcome = Return([total_nodes |-> 11, estimated_total_hours |-> 275])

\* the overview of the default roadmap
C14_Witness ==
  /\ Loaded
  /\ last.op = "get_roadmap_overview"
  /\ Returned.total_nodes = Len(nodes)

(***************************************************************************)
(* C15                                                                     *)
(***************************************************************************)
\* C15: on the default roadmap the path to ai-engineer holds each of the
\* eleven nodes once, every node after the nodes it lists, start first,
\* ai-engineer last and model-adaptation before infrastructure.
C15_FullPathInOrder ==
  (Loaded /\ last.op = "get_learning_path" /\ last.arg = "ai-engineer") =>
    LET path == Returned
    IN /\ Len(path) = 11
       /\ \A i \in 1..Len(nodes) : Cardinality(Positions(path, nodes[i].id)) = 1
       /\ \A k \in 1..Len(path) : path[k] \in Elems(nodes)
       /\ \A k \in 1..Len(path) : \A p \in Elems(path[k].prerequisites) :
             \E j \in 1..(k - 1) : path[j].id = p
       /\ path[1].id = "start"
       /\ path[Len(path)].id = "ai-engineer"
       /\ Position(path, "model-adaptation") < Position(path, "infrastructure")

\* the path to ai-engineer on the default roadmap
C15_Witness ==
  /\ Loaded
  /\ last.op = "get_learning_path"
  /\ last.arg = "ai-engineer"
  /\ Len(Returned) = Len(nodes)

(***************************************************************************)
(* C16                                                                     *)
(***************************************************************************)
\* C16: on the default roadmap, with start completed llm-apis is recommended
\* and model-adaptation is not; with start and llm-apis completed both
\* model-adaptation and storage-retrieval are.
C16_UnlockedByCompletion ==
  (Loaded /\ last.op = "get_next_recommended_topics") =>
    /\ last.arg = <<"start">> =>
          /\ Positions(Returned, "llm-apis") # {}
          /\ Positions(Returned, "model-adaptation") = {}
    /\ last.arg = <<"start", "llm-apis">> =>
          /\ Positions(Returned, "model-adaptation") # {}
          /\ Positions(Returned, "storage-retrieval") # {}

\* the recommendations on the default roadmap with start and llm-apis done
C16_Witness ==
  /\ Loaded
  /\ last.op = "get_next_recommended_topics"
  /\ last.arg = <<"start", "llm-apis">>
  /\ Len(Returned) = 2

(***************************************************************************)
(* C17                                                                     *)
(***************************************************************************)
\* the stored ids whose nodes are of the given kind
OfKind(store, kind) == {id \in StoredIds(store) : StoredNode(store, id).node_type = kind}

\* C17: the default roadmap has one START and one END node, both of zero
\* hours; every id listed as a prerequisite is stored; no node is its own
\* ancestor; START alone lists nothing; START is an ancestor of every other
\* node and every node other than END is an ancestor of END.
C17_DefaultIsDAG ==
  Loaded =>
    /\ Cardinality(OfKind(nodes, "start")) = 1
    /\ Cardinality(OfKind(nodes, "end")) = 1
    /\ \A id \in OfKind(nodes, "start") \cup OfKind(nodes, "end") :
          StoredNode(nodes, id).estimated_hours = 0
    /\ \A i \in 1..Len(nodes) : Elems(nodes[i].prerequisites) \subseteq StoredIds(nodes)
    /\ \A id \in StoredIds(nodes) : id \notin Ancestors(nodes, id)
    /\ \A id \in StoredIds(nodes) :
          StoredNode(nodes, id).prerequisites = <<>> <=> id \in OfKind(nodes, "start")
    /\ \A id \in StoredIds(nodes) \ OfKind(nodes, "start") :
          OfKind(nodes, "start") \subseteq Ancestors(nodes, id)
    /\ \A e \in OfKind(nodes, "end") :
          StoredIds(nodes) \ {e} = Ancestors(nodes, e)

\* the store right after load_default_roadmap
C17_Witness ==
  /\ last.op = "load_default_roadmap"
  /\ OfKind(nodes, "start") = {"start"}
  /\ OfKind(nodes, "end") = {"ai-engineer"}

(***************************************************************************)
(* C18                                                                     *)
(***************************************************************************)
\* whether the stored node of id lists p as a prerequisite
Lists(store, id, p) ==
  id \in StoredIds(store) /\ p \in Elems(StoredNode(store, id).prerequisites)

\* the arrows of the canonical chain but the one from infrastructure to
\* ai-agents, as pairs of a prerequisite and the node after the arrow
ChainArrows ==
  { <<"start", "llm-apis">>,
    <<"llm-apis", "model-adaptation">>, <<"llm-apis", "storage-retrieval">>,
    <<"model-adaptation", "infrastructure">>, <<"storage-retrieval", "infrastructure">>,
    <<"ai-agents", "rag-agentic">>,
    <<"rag-agentic", "observability-evaluation">>,
    <<"observability-evaluation", "security">>,
    <<"security", "forward-looking">>,
    <<"forward-looking", "ai-engineer">> }

\* C18, as claimed: every arrow of the canonical chain is a prerequisite
\* edge of the default roadmap, the one from infrastructure to ai-agents
\* included.
C18_EveryArrow ==
  Loaded =>
    \A arrow \in ChainArrows \cup {<<"infrastructure", "ai-agents">>} :
      Lists(nodes, arrow[2], arrow[1])

\* C18, amended: every arrow of the canonical chain but the one from
\* infrastructure to ai-agents is a prerequisite edge of the default
\* roadmap; ai-agents lists model-adaptation and storage-retrieval, as
\* infrastructure does, and get_prerequisites returns these two for it;
\* infrastructure stands before ai-agents in the store.
C18_EveryArrowButOne ==
  Loaded =>
    /\ \A arrow \in ChainArrows : Lists(nodes, arrow[2], arrow[1])
    /\ StoredNode(nodes, "ai-agents").prerequisites =
         <<"model-adaptation", "storage-retrieval">>
    /\ StoredNode(nodes, "infrastructure").prerequisites =
         <<"model-adaptation", "storage-retrieval">>
    /\ Position(nodes, "infrastructure") < Position(nodes, "ai-agents")
    /\ (last.op = "get_prerequisites" /\ last.arg = "ai-agents") =>
          /\ Len(Returned) = 2
          /\ Returned[1].id = "model-adaptation"
          /\ Returned[2].id = "storage-retrieval"

\* the prerequisites of ai-agents on the default roadmap, asked for
C18_Witness ==
  /\ Loaded
  /\ last.op = "get_prerequisites"
  /\ last.arg = "ai-agents"
  /\ Positions(Returned, "infrastructure") = {}
  /\ Returned # <<>>

(***************************************************************************)
(* C19                                                                     *)
(***************************************************************************)
\* what the query op(arg) returns when it runs alone on the store
Alone(op, arg) ==
  CASE op = "get_node_by_id" -> get_node_by_id(nodes, arg)
    [] op = "get_all_nodes" -> get_all_nodes(nodes)
    [] op = "get_roadmap_overview" -> get_roadmap_overview(nodes)
    [] op = "get_learning_path" -> get_learning_path(nodes, arg)
    [] op = "get_prerequisites" -> get_prerequisites(nodes, arg)
    [] op = "get_next_recommended_topics" -> get_next_recommended_topics(nodes, arg)
    [] op = "calculate_remaining_hours" -> calculate_remaining_hours(nodes, arg)

\* C19: once the store is filled, no step of a query changes it, whatever
\* the threads and the interleaving of their steps, and every query returns
\* what it returns when it runs alone.
C19_ConcurrentReads ==
  /\ [][(\E t \in Threads : threads'[t] # threads[t]) => nodes' = nodes]_vars
  /\ [](\A t \in Threads :
          threads[t].pc = "done" => threads[t].result = Alone(threads[t].op, threads[t].arg))

\* two threads inside get_learning_path at once, each with nodes in its
\* path already, one of them returned into an outer call of build_path
C19_Witness ==
  /\ \A t \in Threads : Running(t, "get_learning_path") /\ threads[t].walk.path # <<>>
  /\ \E t \in Threads : Len(threads[t].stack) = 1
  /\ \E t \in Threads : Len(threads[t].stack) > 1

(***************************************************************************)
(* C20                                                                     *)
(***************************************************************************)
\* the collaborator calls of the last audio request that raised
Raised == {k \in 1..Len(invoked) : IsRaise(invoked[k].outcome)}

\* C20: process_audio_input returns, also when a collaborator raises, and
\* then it returns success False, the empty transcription, the empty
\* sentiment_analysis and a text for the user that holds the error's.
C20_AudioFailureContained ==
  last.op = "process_audio_input" =>
    /\ last.outcome.py = "return"
    /\ \A k \in Raised :
         /\ Returned.success = FALSE
         /\ Returned.transcription = ""
         /\ Returned.sentiment_analysis = empty_dict
         /\ Returned.ai_response =
              "Sorry, I encountered an error processing your audio: "
                \o invoked[k].outcome.message

\* a request whose language-model query raises after a transcription that
\* is not empty and a sentiment analysis that is not empty were returned
C20_Witness ==
  /\ last.op = "process_audio_input"
  /\ Len(invoked) = 3
  /\ IsRaise(invoked[3].outcome)
  /\ invoked[1].outcome.value # ""
  /\ invoked[2].outcome.value # empty_dict
  /\ Returned.success = FALSE

(***************************************************************************)
(* C21                                                                     *)
(***************************************************************************)
\* the four methods that ask the language model
ChatMethods ==
  {"process_learning_query", "get_topic_specific_help", "create_chatbot_response",
   "get_topic_help"}

\* the error of the call of the last request that raised, as a set
Failures == {invoked[k].outcome.message : k \in Raised}

\* C21: when the provider's call fails, or the openai_service's, each of
\* process_learning_query, get_topic_specific_help, create_chatbot_response
\* and get_topic_help returns, and what it returns is a text for the user
\* that is not the provider's and holds the text of the error.
C21_FallbackReturned ==
  (last.op \in ChatMethods /\ Raised # {}) =>
     /\ ~IsRaise(last.outcome)
     /\ \E e \in Failures :
          Returned \in
            { "I'm sorry, I encountered an error while processing your request: " \o e
                \o ". Please try again or check your OpenAI API key.",
              "I'm having trouble accessing the AI assistant right now: " \o e
                \o ". Please check your internet connection and API key.",
              "I'm having trouble responding right now: " \o e \o ". Please try again.",
              "I'm having trouble accessing topic help: " \o e \o ". Please try again." }

\* create_chatbot_response on a real OpenAIService whose provider failed
C21_Witness ==
  /\ last.op = "create_chatbot_response"
  /\ Len(invoked) = 2
  /\ invoked[1].method = "chat.completions.create"
  /\ IsRaise(invoked[1].outcome)
  /\ ~IsRaise(last.outcome)

(***************************************************************************)
(* C22                                                                     *)
(***************************************************************************)
\* a depth-first traversal of the prerequisite lists, run on a stack of the
\* nodes entered and not yet left, each with the place in its list of the
\* prerequisite to look at next: an id is visited when its node is
\* entered, and out takes a node's id when the node is left
RECURSIVE Traverse(_, _, _, _)
Traverse(store, entered, visited, out) ==
  IF entered = <<>> THEN out
  ELSE LET top == entered[Len(entered)]
           below == SubSeq(entered, 1, Len(entered) - 1)
           listed == StoredNode(store, top.id).prerequisites
       IN IF top.next > Len(listed)
            THEN Traverse(store, below, visited, Append(out, top.id))
          ELSE LET p == listed[top.next]
                   moved == Append(below, [top EXCEPT !.next = @ + 1])
               IN IF p \in visited \/ p \notin StoredIds(store)
                    THEN Traverse(store, moved, visited, out)
                    ELSE Traverse(store, Append(moved, [id |-> p, next |-> 1]),
                                  visited \cup {p}, out)

\* the ids of the post-order of the traversal that starts at target
PostOrder(store, target) ==
  IF target \notin StoredIds(store) THEN <<>>
  ELSE Traverse(store, <<[id |-> target, next |-> 1]>>, {target}, <<>>)

\* C22: for every store and every target, get_learning_path returns the
\* stored nodes of the post-order of the depth-first traversal that starts
\* at the target, takes each node's prerequisites in the order listed and
\* skips the ids visited already and the ids the store does not hold.
C22_PathIsPostOrder ==
  last.op = "get_learning_path" =>
     LET order == PostOrder(nodes, last.arg)
     IN Returned = [k \in 1..Len(order) |-> StoredNode(nodes, order[k])]

\* a path of three nodes to a target that lists two of them, whose first
\* node is the one the target lists second, so that the traversal skips
\* an id visited already
C22_Witness ==
  /\ last.op = "get_learning_path"
  /\ Len(Returned) = 3
  /\ LET listed == Returned[3].prerequisites
     IN /\ Len(listed) = 2
        /\ listed[1] # listed[2]
        /\ Returned[1].id = listed[2]
        /\ Returned[2].id = listed[1]

(***************************************************************************)
(* C23                                                                     *)
(***************************************************************************)
\* the remaining hours returned lie between 0 and the total of the
\* overview, and no id added to completed_ids makes them more
RemainingBounded ==
  /\ 0 <= Returned
  /\ Returned <= get_roadmap_overview(nodes).estimated_total_hours
  /\ \A id \in Ids : calculate_remaining_hours(nodes, Append(last.arg, id)) <= Returned

\* C23, as claimed: for every store and every completed_ids the remaining
\* hours are non-negative, at most the estimated_total_hours of the
\* overview, and not increased by adding an id to completed_ids.
C23_BoundedEveryStore ==
  last.op = "calculate_remaining_hours" => RemainingBounded

\* C23, amended: the same for every store none of whose nodes has negative
\* estimated_hours.
C23_BoundedNonNegativeStore ==
  (last.op = "calculate_remaining_hours"
     /\ \A i \in 1..Len(nodes) : nodes[i].estimated_hours >= 0) => RemainingBounded

\* remaining hours strictly between 0 and the total, on a store without
\* negative hours, asked with a completed_ids that names an id twice and
\* to which an id can be added that makes them less
C23_Witness ==
  /\ last.op = "calculate_remaining_hours"
  /\ \A i \in 1..Len(nodes) : nodes[i].estimated_hours >= 0
  /\ 0 < Returned
  /\ Returned < get_roadmap_overview(nodes).estimated_total_hours
  /\ Len(last.arg) = 2 /\ last.arg[1] = last.arg[2]
  /\ \E id \in Ids : calculate_remaining_hours(nodes, Append(last.arg, id)) < Returned

(***************************************************************************)
(* C24                                                                     *)
(***************************************************************************)
\* the callbacks of the application that read completed_topics
ListCallbacks ==
  {"add_completed_topic", "remove_completed_topic", "reset_progress", "chatbot_respond",
   "process_audio_recording"}

\* the list of completed topics that the last request handed to the
\* service it called
Seen ==
  LET made == invoked[Len(invoked)]
  IN IF made.method = "create_progress_tracker_display" THEN made.args[1]
     ELSE made.args[Len(made.args)].completed_topics

\* C24: whichever session a callback runs for, the progress display, the
\* chatbot reply and the audio request are made from the one list as the
\* callbacks of all the sessions before it left it, changed only by what
\* the callback itself adds, removes or resets; a chatbot or audio request
\* leaves the list as it is.
C24_OneListForAllSessions ==
  [][ (last'.op \in ListCallbacks /\ invoked' # <<>>) =>
        /\ Seen' = completed_topics'
        /\ last'.op \in {"chatbot_respond", "process_audio_recording"}
             => completed_topics' = completed_topics
        /\ (last'.op = "add_completed_topic" /\ truthy(last'.arg.topic_id))
             => /\ last'.arg.topic_id.value \in Elems(Seen')
                /\ Elems(Seen') = Elems(completed_topics) \cup {last'.arg.topic_id.value}
        /\ (last'.op = "remove_completed_topic" /\ truthy(last'.arg.topic_id))
             => Elems(completed_topics) \ {last'.arg.topic_id.value} \subseteq Elems(Seen')
        /\ last'.op = "reset_progress" => Seen' = <<>>
    ]_vars

\* a chatbot request of a session whose own Progress Tracker still shows
\* no completed topic, made with a list of two topics: what it sees was
\* added in the other session
C24_Witness ==
  /\ last.op = "chatbot_respond"
  /\ invoked # <<>>
  /\ progress_output[last.arg.session].completed = 0
  /\ Len(Seen) = 2
  /\ \E other \in Sessions \ {last.arg.session} : progress_output[other].completed = 2

(***************************************************************************)
(* C25                                                                     *)
(***************************************************************************)
\* the TOPIC nodes of the store that completed_topics does not name
TopicsLeft == OfKind(nodes, "topic") \ Elems(completed_topics)

\* what get_next_recommended_topics gives for the list as it stands
RecommendedNow == get_next_recommended_topics(nodes, completed_topics)

\* the study has begun: the roadmap is loaded and start is completed
Studying == Loaded /\ completed_topics # <<>> /\ completed_topics[1] = "start"

\* while a TOPIC node is left a topic is recommended, and none once none is
\* left; every step so far has completed one more TOPIC node, so that none
\* is left after nine steps and not before
StudyAdvances ==
  Studying =>
    /\ TopicsLeft # {} <=> RecommendedNow # <<>>
    /\ NoDuplicates(completed_topics)
    /\ Elems(completed_topics) \subseteq {"start"} \cup OfKind(nodes, "topic")
    /\ Cardinality(OfKind(nodes, "topic")) = 9
    /\ TopicsLeft = {} <=> Len(completed_topics) - 1 = 9

\* the nine TOPIC nodes are completed, in nine steps, and nothing is
\* recommended
StudyDone ==
  Studying /\ TopicsLeft = {} /\ RecommendedNow = <<>> /\ Len(completed_topics) - 1 = 9

\* C25: on the default roadmap, from completed = [start] on, a topic is
\* recommended in every state in which a TOPIC node is not completed, each
\* marking of a recommended topic completes one more, and every run that
\* goes on marking reaches, after nine markings, the state where the nine
\* TOPIC nodes are completed and nothing is recommended, and stays there.
C25_StudyCompletes ==
  /\ []StudyAdvances
  /\ Studying ~> []StudyDone

\* the nine topics completed in an order that is not the order of the
\* roadmap, infrastructure after rag-agentic, and the caller told that
\* nothing is recommended any more
C25_Witness ==
  /\ StudyDone
  /\ \E i, j \in 1..Len(completed_topics) :
       i < j /\ completed_topics[i] = "rag-agentic" /\ completed_topics[j] = "infrastructure"
  /\ last.op = "get_next_recommended_topics"
  /\ last.arg = completed_topics
  /\ Returned = <<>>

(***************************************************************************)
(* C26                                                                     *)
(***************************************************************************)
\* the last call is a Progress Tracker display of the default roadmap
Displayed == Loaded /\ last.op = "create_progress_tracker_display"

\* C26, as claimed: on the default roadmap the Progress Tracker shows the
\* Congratulations message only for a completed_topics that names every
\* TOPIC node, and for every other list a Next Recommended Topics section
\* of one to three topics.
C26_CongratulationsOnlyWhenDone ==
  Displayed =>
    IF OfKind(nodes, "topic") \subseteq Elems(last.arg)
      THEN Returned.heading \in {"Congratulations! No more topics available.",
                                 "Next Recommended Topics:"}
      ELSE /\ Returned.heading = "Next Recommended Topics:"
           /\ Len(Returned.topics) \in 1..3

\* what the code does: the Congratulations message stands for an empty
\* get_next_recommended_topics, which is the case for every list that
\* names every TOPIC node and for lists that do not, the empty list among
\* them; the section otherwise shown has one to three topics.
C26_CongratulationsWhenNothingRecommended ==
  Displayed =>
    /\ Returned.heading = "Congratulations! No more topics available."
         <=> \A i \in 1..Len(nodes) : ~Recommendable(nodes[i], Elems(last.arg))
    /\ Returned.heading = "Next Recommended Topics:" => Len(Returned.topics) \in 1..3
    /\ OfKind(nodes, "topic") \subseteq Elems(last.arg)
         => Returned.heading = "Congratulations! No more topics available."

\* the display for the empty list, which is the one the application
\* starts with: no topic completed, and Congratulations
C26_Shown ==
  /\ Displayed
  /\ last.arg = <<>>
  /\ Returned.completed = 0
  /\ Returned.heading = "Congratulations! No more topics available."

(***************************************************************************)
(* C27                                                                     *)
(***************************************************************************)
\* the list names no id twice and no empty id
WellFormed(list) == NoDuplicates(list) /\ "" \notin Elems(list)

\* C27: with the callbacks run one after the other, completed_topics never
\* names an id twice nor an empty id; add_completed_topic of an id that is
\* in the list, or of no id, and remove_completed_topic of an id that is
\* not, leave the list as it is, and reset_progress leaves it empty.
C27_ListWellFormed ==
  /\ [](WellFormed(completed_topics))
  /\ [][ /\ (last'.op = "add_completed_topic"
               /\ (contains(completed_topics, last'.arg.topic_id)
                     \/ ~truthy(last'.arg.topic_id)))
             => completed_topics' = completed_topics
         /\ (last'.op = "remove_completed_topic"
               /\ ~contains(completed_topics, last'.arg.topic_id))
             => completed_topics' = completed_topics
         /\ last'.op = "reset_progress" => completed_topics' = <<>>
     ]_vars

\* add_completed_topic returned from an id that stands in the list before
\* the list's last id, so that it was there already, the list being of
\* three ids
C27_Witness ==
  /\ last.op = "add_completed_topic"
  /\ Len(completed_topics) = 3
  /\ truthy(last.arg.topic_id)
  /\ last.arg.topic_id.value = completed_topics[1]
  /\ Returned.completed = 3

(***************************************************************************)
(* C28                                                                     *)
(***************************************************************************)
\* the collaborator methods of an audio request, in the order fixed
AudioSteps == <<"transcribe_audio", "analyze_audio_sentiment", "process_learning_query">>

\* C28: process_audio_input calls transcribe_audio, then
\* analyze_audio_sentiment, then process_learning_query, each at most once
\* and the query with what the two before it returned; a call that raises
\* is the last one made, and all three are made when none raises.
C28_FixedOrder ==
  last.op = "process_audio_input" =>
    /\ Len(invoked) \in 1..3
    /\ \A k \in 1..Len(invoked) : invoked[k].method = AudioSteps[k]
    /\ \A k \in 1..Len(invoked) : IsRaise(invoked[k].outcome) => k = Len(invoked)
    /\ Len(invoked) < 3 => IsRaise(invoked[Len(invoked)].outcome)
    /\ Len(invoked) = 3 =>
         /\ invoked[3].args[1] = invoked[1].outcome.value
         /\ invoked[3].args[2] = create_sentiment_context(invoked[2].outcome.value)

\* a request whose sentiment analysis raises after the transcription
\* returned a text: two calls made, the second one raised
C28_Witness ==
  /\ last.op = "process_audio_input"
  /\ Len(invoked) = 2
  /\ ~IsRaise(invoked[1].outcome)
  /\ invoked[1].outcome.value # ""
  /\ IsRaise(invoked[2].outcome)
  /\ Returned.success = FALSE

(***************************************************************************)
(* C29                                                                     *)
(***************************************************************************)
\* the last call is an audio request to the service on a real OpenAIService
OnProvider == last.op = "process_audio_input" /\ "client" \in DOMAIN last.arg

\* the provider's transcription failed, the sentiment analysis raised, the
\* provider's completion failed
TranscriptionFailed == IsRaise(last.arg.client.whisper)

SentimentFailed == Len(invoked) >= 2 /\ IsRaise(invoked[2].outcome)

CompletionFailed == Len(invoked) = 3 /\ IsRaise(last.arg.client.chat)

\* C29, as claimed: on a real OpenAIService the result has success True
\* only if the transcription, the sentiment analysis and the completion of
\* the language model all succeeded.
C29_SuccessOnlyIfAllSucceeded ==
  OnProvider =>
    (Returned.success => ~TranscriptionFailed /\ ~SentimentFailed /\ ~CompletionFailed)

\* what the code does: success is False exactly when the transcription or
\* the sentiment analysis failed; a completion that failed leaves success
\* True, with the apology of process_learning_query as ai_response.
C29_SuccessDespiteFailedCompletion ==
  OnProvider =>
    /\ Returned.success <=> ~TranscriptionFailed /\ ~SentimentFailed
    /\ CompletionFailed =>
         /\ Returned.success
         /\ Returned.ai_response =
              "I'm sorry, I encountered an error while processing your request: "
                \o last.arg.client.chat.message
                \o ". Please try again or check your OpenAI API key."

\* a request transcribed and analyzed whose completion failed at the
\* provider, returned with success True
C29_Shown ==
  /\ OnProvider
  /\ CompletionFailed
  /\ invoked[1].outcome.value # ""
  /\ Returned.success

(***************************************************************************)
(* C30                                                                     *)
(***************************************************************************)
\* every prerequisite id of every node of the store is a key of the store
Resolves(store) ==
  \A i \in 1..Len(store) :
    \A k \in 1..Len(store[i].prerequisites) :
      get_node_by_id(store, store[i].prerequisites[k]) # None

\* the ids reached from the ids of S by prerequisite links of the default
\* roadmap, S included
RECURSIVE AncestorClosure(_)
AncestorClosure(S) ==
  LET step == S \cup UNION { Elems(DefaultNodes[i].value.prerequisites) :
                               i \in {j \in 1..Len(DefaultNodes) :
                                        DefaultNodes[j].value.id \in S} }
  IN IF step = S THEN S ELSE AncestorClosure(step)

\* thread t is about to look up a prerequisite id that is not a key
SeesDangling(t) ==
  \/ /\ Running(t, "get_learning_path")
     /\ LET top == threads[t].stack[Len(threads[t].stack)]
        IN /\ top.i = 0
           /\ top.node_id \notin threads[frame(t)].walk.visited
           /\ get_node_by_id(nodes, top.node_id) = None
  \/ /\ Running(t, "get_prerequisites")
     /\ LET loc == threads[t].local
        IN /\ loc.i <= Len(loc.node.prerequisites)
           /\ get_node_by_id(nodes, loc.node.prerequisites[loc.i]) = None

\* thread t is back from get_learning_path of a target that was stored
GotPath(t) ==
  /\ threads[t].pc = "done"
  /\ threads[t].op = "get_learning_path"
  /\ threads[t].result # <<>>

\* C30: while load_default_roadmap fills the empty store one node at a
\* time, every prerequisite id of every stored node is stored; no query
\* step of a thread meets a prerequisite id that is not stored; and a
\* get_learning_path of a stored target returns the nodes of the target's
\* ancestor closure, each once.
C30_PopulationNeverDangles ==
  /\ Resolves(nodes)
  /\ \A t \in Threads :
       /\ ~SeesDangling(t)
       /\ GotPath(t) =>
            /\ { threads[t].result[i].id : i \in 1..Len(threads[t].result) }
                 = AncestorClosure({threads[t].arg})
            /\ Len(threads[t].result) = Cardinality(AncestorClosure({threads[t].arg}))

\* a thread has the path to "infrastructure", whose closure has five nodes,
\* another is inside its walk, and the load is not over
C30_Witness ==
  /\ Len(added) < Len(DefaultNodes)
  /\ \E t, u \in Threads :
       /\ GotPath(t)
       /\ threads[t].arg = "infrastructure"
       /\ Len(threads[t].result) = 5
       /\ Running(u, "get_learning_path")
       /\ Len(threads[u].stack) > 1

====
